---- MODULE Spec2Model ----
(***************************************************************************)
(* The aggregation core of the portfolio tracker: the price service        *)
(* (app/services/price_service.py), the balance readers and the portfolio  *)
(* assembler (app/services/balance_service.py) over the Redis cache        *)
(* (app/cache.py).                                                         *)
(*                                                                         *)
(* Numbers.  A Decimal is the record [c, e] (coefficient and exponent, the *)
(* value c * 10^e), as Python's decimal keeps it.  A float amount of money *)
(* (a price, a usd or ngn value) is an integer number of hundredths; the   *)
(* fiat rate is a whole number of NGN per USD.  An on-chain integer is the *)
(* record [m, k] (the value m * 10^k), so that 18-decimal amounts stay     *)
(* inside 32-bit integers.                                                 *)
(***************************************************************************)
EXTENDS Integers, Sequences, FiniteSets, TLC

None == "None"

\* ------------------------------------------------------------ configuration

\* models/wallet.py NetworkType
NetworkType == {"ethereum", "bitcoin", "bsc", "polygon"}

\* balance_service.py NATIVE_ASSETS
NATIVE_ASSETS ==
  [n \in NetworkType |->
     CASE n = "ethereum" -> "ETH"
       [] n = "bsc"      -> "BNB"
       [] n = "polygon"  -> "MATIC"
       [] n = "bitcoin"  -> "BTC"]

NativeSymbols == {NATIVE_ASSETS[n] : n \in NetworkType}

\* balance_service.py TOKEN_CONFIG: network -> token (lower case) -> decimals.
\* The contract address only goes into the request payload.
TokenNetworks == {"ethereum", "bsc", "polygon"}

ConfiguredTokens == {"usdt", "usdc"}

TokenDecimals(network, token) ==
  IF network = "bsc" THEN 18 ELSE 6

TOKEN_CONFIG(network) ==
  IF network \in TokenNetworks
    THEN [t \in ConfiguredTokens |-> [decimals |-> TokenDecimals(network, t)]]
    ELSE << >>

\* price_service.py REQUIRED_SYMBOLS
REQUIRED_SYMBOLS == {"BTCUSDT", "ETHUSDT", "BNBUSDT", "MATICUSDT", "USDCUSDT"}

\* The fields of PricesListResponse (schemas/price.py).
PriceFields == {"btc", "eth", "bnb", "matic", "usdt", "usdc"}

\* What a PricesListResponse has besides its fields: the methods of pydantic's
\* BaseModel (get_all_prices calls model_dump, line 127), which hasattr finds as
\* it finds the fields.
ModelMethods == {"model_dump", "model_copy", "model_dump_json"}

\* price_service.py: the cache keys.
CACHE_KEY_PRICES == <<"crypto", "prices">>

CACHE_KEY_NGN_RATE == <<"crypto", "ngn_rate">>

\* price_service.py get_ngn_rate: the fallback rate 1500.0.
FALLBACK_NGN_RATE == 1500

\* price_service.py get_all_prices: "usdt": {"price": 1.0, ...}, in hundredths.
USDT_PRICE == 100

\* Decimal places of the native amounts: wei (10 ** 18) and satoshi (100_000_000).
WEI_DECIMALS == 18

SATOSHI_DECIMALS == 8

\* ------------------------------------------------------------ exceptions

\* app/exceptions.py.  An exception is its class and what its message says.
NoException == [type |-> None, service |-> None, message |-> None]

BlockAiException(message) ==
  [type |-> "BlockAiException", service |-> None, message |-> message]

\* ExternalAPIError is a BlockAiException; it is told apart by its class.
ExternalAPIError(service, detail) ==
  [type |-> "ExternalAPIError", service |-> service, message |-> detail]

\* What parsing an unexpected body raises (KeyError, ValueError).
KeyError == [type |-> "KeyError", service |-> None, message |-> None]

\* What int(result, 16) raises for a string without a hexadecimal digit.
ValueError == [type |-> "ValueError", service |-> None, message |-> None]

\* What subscripting or converting a null of the body raises.
TypeError == [type |-> "TypeError", service |-> None, message |-> None]

\* What reading price_usd off an attribute that is no AssetPriceResponse raises.
\* redis.exceptions.ConnectionError, raised by a client whose server is away.
ConnectionError == [type |-> "ConnectionError", service |-> "Redis", message |-> "connection"]

AttributeError == [type |-> "AttributeError", service |-> None, message |-> None]

\* ------------------------------------------------------------ strings

\* The asset strings a caller passes, with their str.upper() and str.lower().
AssetStrings ==
  {"", "BTC", "btc", "ETH", "eth", "BNB", "MATIC", "USDT", "usdt", "Usdt",
   "USDC", "usdc", "DAI", "dai"}

\* The symbol strings get_price_for_symbol is called with: assets of the table
\* in several cases, an asset it lacks, the empty string, and the name of a
\* method every pydantic model has.
SymbolStrings ==
  {"BTC", "eth", "BNB", "MATIC", "usdc", "Usdt", "DOGE", "", "model_dump", "MODEL_DUMP"}

Upper(s) ==
  CASE s \in {"BTC", "btc"}           -> "BTC"
    [] s \in {"ETH", "eth"}           -> "ETH"
    [] s \in {"USDT", "usdt", "Usdt"} -> "USDT"
    [] s \in {"USDC", "usdc"}         -> "USDC"
    [] s \in {"DAI", "dai"}           -> "DAI"
    [] s \in {"MODEL_DUMP", "model_dump"} -> "MODEL_DUMP"
    [] OTHER                          -> s

Lower(s) ==
  CASE s \in {"BTC", "btc"}           -> "btc"
    [] s \in {"ETH", "eth"}           -> "eth"
    [] s = "BNB"                      -> "bnb"
    [] s = "MATIC"                    -> "matic"
    [] s \in {"USDT", "usdt", "Usdt"} -> "usdt"
    [] s \in {"USDC", "usdc"}         -> "usdc"
    [] s \in {"DAI", "dai"}           -> "dai"
    [] s \in {"MODEL_DUMP", "model_dump"} -> "model_dump"
    [] s = "DOGE"                     -> "doge"
    [] OTHER                          -> s

\* ------------------------------------------------------------ arithmetic

RECURSIVE Pow10(_)
Pow10(n) == IF n <= 0 THEN 1 ELSE 10 * Pow10(n - 1)

\* The exact quotient of Decimal division: the value c * 10^e with the exponent
\* as close to 0 as the value allows.
RECURSIVE Normalize(_, _)
Normalize(c, e) ==
  IF c = 0 THEN [c |-> 0, e |-> 0]
  ELSE IF e >= 0 THEN [c |-> c * Pow10(e), e |-> 0]
  ELSE IF c % 10 = 0 THEN Normalize(c \div 10, e + 1)
  ELSE [c |-> c, e |-> e]

\* Decimal(raw) / Decimal(10 ** decimals) of an amount of few significant
\* digits, where the quotient has all of them (see Quotient below).
DecimalOfUnits(raw, decimals) == Normalize(raw.m, raw.k - decimals)

\* round(num / den) to the nearest integer, ties to even (num >= 0, den > 0).
RoundHalfEven(num, den) ==
  LET q == num \div den
      r == num % den
  IN  IF 2 * r > den THEN q + 1
      ELSE IF 2 * r < den THEN q
      ELSE IF q % 2 = 0 THEN q ELSE q + 1

\* ---- Decimal division at the context's precision.  An on-chain integer is
\* the sequence of its decimal digits, the most significant first.

\* decimal.getcontext().prec: Decimal's "/" rounds its result to this many
\* significant digits (ROUND_HALF_EVEN).
PREC == 28

Zeros(n) == [i \in 1..n |-> 0]

RECURSIVE TrailingZeros(_)
TrailingZeros(ds) ==
  IF ds = << >> \/ ds[Len(ds)] # 0 THEN 0 ELSE 1 + TrailingZeros(SubSeq(ds, 1, Len(ds) - 1))

\* ds + 1
RECURSIVE Increment(_)
Increment(ds) ==
  IF ds = << >> THEN <<1>>
  ELSE IF ds[Len(ds)] < 9 THEN [ds EXCEPT ![Len(ds)] = @ + 1]
  ELSE Append(Increment(SubSeq(ds, 1, Len(ds) - 1)), 0)

\* A coefficient rounded to PREC digits, ties to even: the digits kept and the
\* number of digits dropped.
RoundToPrec(ds) ==
  IF Len(ds) <= PREC THEN [digits |-> ds, shift |-> 0]
  ELSE LET kept == SubSeq(ds, 1, PREC)
           rest == SubSeq(ds, PREC + 1, Len(ds))
           more == \E i \in 2..Len(rest) : rest[i] # 0
           up == \/ rest[1] > 5
                 \/ rest[1] = 5 /\ (more \/ kept[PREC] % 2 = 1)
           inc == Increment(kept)
       IN  IF ~up THEN [digits |-> kept, shift |-> Len(rest)]
           ELSE IF Len(inc) > PREC
             THEN [digits |-> SubSeq(inc, 1, PREC), shift |-> Len(rest) + 1]
             ELSE [digits |-> inc, shift |-> Len(rest)]

\* Line 165: Decimal(balance_raw) / Decimal(10 ** decimals).  The quotient of
\* n by a power of ten has n's digits less the trailing zeros the division
\* takes up, rounded to the context's precision: digits x 10^exp.
Quotient(n, decimals) ==
  IF n = <<0>> THEN [digits |-> <<0>>, exp |-> 0]
  ELSE LET tz == IF TrailingZeros(n) < decimals THEN TrailingZeros(n) ELSE decimals
           r == RoundToPrec(SubSeq(n, 1, Len(n) - tz))
       IN  [digits |-> r.digits, exp |-> r.shift + tz - decimals]

\* float(balance) > 0
IsPositive(balance) == balance.c > 0

\* ------------------------------------------------------------ inputs

\* A WalletModel document.  Its id is the ObjectId, written as str() writes it.
WalletModel(id, network, address, encrypted_key) ==
  [id |-> id, network |-> network, address |-> address, public_key |-> "04" \o address,
   encrypted_private_key |-> encrypted_key, created_at |-> "t0", updated_at |-> "t0"]

\* The wallets of the store (addresses unique), each with a key of its own.
Wallet(id, network, address) == WalletModel(id, network, address, "key of " \o id)

WalletSeq ==
  <<Wallet("w1", "ethereum", "0xa1"), Wallet("w2", "bitcoin", "bc1q2"),
    Wallet("w3", "bsc", "0xa3"), Wallet("w4", "bitcoin", "bc1q4"),
    Wallet("w5", "polygon", "0xa5")>>

WalletPool == {WalletSeq[i] : i \in 1..Len(WalletSeq)}

\* A task list that asks every wallet for its tokens too.
WalletAssetsAll(wallet) == <<None, "USDT", "USDC">>

\* fetch_wallet_balances, lines 351-355: the assets requested for a wallet, in
\* task order.  None is the call without an asset (the native one).
WalletAssets(wallet) ==
  IF wallet.network # "bitcoin" THEN <<None, "USDT", "USDC">> ELSE <<None>>

\* The wallet lists of a portfolio request: what get_all_wallets() returns for
\* a store that is empty, holds one wallet, or holds two.
WalletLists ==
  {<< >>, <<WalletSeq[1]>>, <<WalletSeq[2]>>, <<WalletSeq[3]>>,
   <<WalletSeq[1], WalletSeq[2]>>, <<WalletSeq[2], WalletSeq[4]>>}

\* The callers of get_all_prices that run at once (the route, the refresh loop).
PriceCallers == 2

\* The requests served: GET /wallets/balance (the portfolio), GET
\* /wallets/{id}/balance?asset= (one quote), _get_token_balance called alone,
\* get_all_prices called by GET /crypto/prices and by the refresh loop at once,
\* get_ngn_rate called alone by as many callers, get_price_for_symbol called
\* alone, and GET /wallets/{id} (the wallet's details).
Request(kind, wallets, asset) == [kind |-> kind, wallets |-> wallets, asset |-> asset]

Requests ==
  {Request("portfolio", ws, None) : ws \in WalletLists}
    \cup {Request("balance", <<w>>, a) : w \in WalletPool, a \in AssetStrings \cup {None}}
    \cup {Request("token", <<w>>, a) : w \in WalletPool, a \in {"usdt", "USDC", "dai"}}
    \cup {Request("prices", << >>, None)}
    \cup {Request("rate", << >>, None)}
    \cup {Request("price", << >>, symbol) : symbol \in SymbolStrings}
    \cup {Request("wallet", <<w>>, None) : w \in WalletPool}

\* On-chain amounts an endpoint may report for an asset of `decimals` places:
\* nothing and 1.234 units.
RawAmounts(decimals) ==
  {[m |-> 0, k |-> 0], [m |-> 1234, k |-> decimals - 3]}

\* A JSON-RPC exchange (eth_getBalance, eth_call): a transport failure or non-2xx
\* status, an error object, a body without a result member ("empty"), or a
\* hexadecimal result.
RpcResponses(decimals) ==
  {[kind |-> k, raw |-> [m |-> 0, k |-> 0]] : k \in {"http_error", "rpc_error", "empty"}}
    \cup {[kind |-> "result", raw |-> r] : r \in RawAmounts(decimals)}

\* The explorer's address lookup: chain_stats and mempool_stats, any of which may
\* lack its sums (absent fields are left out of the record), in satoshi.
Stats(funded, spent) == [funded_txo_sum |-> funded, spent_txo_sum |-> spent]

ExplorerBodies ==
  {[chain_stats |-> Stats(0, 0), mempool_stats |-> Stats(0, 0)],
   [chain_stats |-> Stats(223400000, 100000000), mempool_stats |-> [funded_txo_sum |-> 0]],
   [chain_stats |-> Stats(100, 100), mempool_stats |-> Stats(100, 100)],
   [chain_stats |-> [funded_txo_sum |-> 123400000]]}

ExplorerResponses ==
  {[kind |-> "http_error", body |-> << >>]}
    \cup {[kind |-> "ok", body |-> b] : b \in ExplorerBodies}

\* The 24hr ticker list: rows symbol -> (lastPrice in hundredths, priceChangePercent).
Row(price, change) == [price |-> price, change_24h |-> change]

TickerRow(s) ==
  CASE s = "BTCUSDT" -> Row(300, 2) [] s = "ETHUSDT" -> Row(200, -1)
    [] s = "BNBUSDT" -> Row(150, 0) [] s = "MATICUSDT" -> Row(50, 1)
    [] s = "USDCUSDT" -> Row(101, 0) [] OTHER -> Row(7, 7)

\* One snapshot: three of the required pairs and a pair that is not required.
TickerBodies ==
  {[s \in {"BTCUSDT", "ETHUSDT", "BNBUSDT", "DOGEUSDT"} |-> TickerRow(s)]}

\* "malformed": a 2xx body that is not the expected JSON (no JSON at all, a row
\* without lastPrice, a price that is no number).
TickerResponses ==
  {[kind |-> "http_error", body |-> << >>], [kind |-> "malformed", body |-> << >>]}
    \cup {[kind |-> "ok", body |-> b] : b \in TickerBodies}

\* The usdtngn ticker of the fiat-rate source: the "last" price.
FiatRates == {1600}

\* "http_error": a transport failure or a non-2xx status.  "status_error": a body
\* whose status is "error".  "malformed": a body that is no JSON, lacks "data",
\* "ticker" or a price, or has a price that is no number.  "null_field": a JSON
\* body with a null where the ticker or a price is expected.
QuidaxResponses ==
  {[kind |-> k, last |-> 0] : k \in {"http_error", "status_error", "malformed", "null_field"}}
    \cup {[kind |-> "ok", last |-> r] : r \in FiatRates}

\* ------------------------------------------------------------ state

VARIABLES
  request,   \* the request being served
  procs,     \* the coroutines it runs: [op, wallet, asset], in creation order
  pc,        \* each coroutine's position
  loc,       \* each coroutine's local variables
  calls,     \* the calls made so far, per kind of callee
  client,    \* Cache.client is set (cache.connect() has run)
  reachable, \* the backing store answers the client
  cache,     \* the entries of the backing store: key -> JSON value
  wres,      \* per wallet of a portfolio: fetch_wallet_balances' result
  response,  \* get_portfolio_value's result
  documents  \* the wallets collection of the database

vars == <<request, procs, pc, loc, calls, client, reachable, cache, wres, response, documents>>

NetworkCalls == {"chain", "explorer", "ticker", "fiat"}

\* The mark of a call to an upstream source that failed.
FailedOf(k) ==
  CASE k = "chain" -> "chain failed" [] k = "explorer" -> "explorer failed"
    [] k = "ticker" -> "ticker failed" [] k = "fiat" -> "fiat failed"

\* What is counted: the calls to the upstream sources, those of them that
\* failed, and the calls to the cache.
CallKinds == NetworkCalls \cup {FailedOf(k) : k \in NetworkCalls} \cup {"cache"}

NoCalls == [k \in CallKinds |-> 0]

\* The calls of a step: one call of each kind named, none of the others.
Called(kinds) == [k \in CallKinds |-> IF k \in kinds THEN 1 ELSE 0]

Plus(a, b) == [k \in CallKinds |-> a[k] + b[k]]

Proc(op, wallet, asset) == [op |-> op, wallet |-> wallet, asset |-> asset]

NoWallet == Wallet(None, None, None)

\* get_portfolio_value / fetch_wallet_balances: the balance tasks of a wallet list,
\* wallet by wallet, each wallet's native task first.
RECURSIVE PortfolioTasks(_)
PortfolioTasks(ws) ==
  IF ws = << >> THEN << >>
  ELSE [i \in 1..Len(WalletAssets(Head(ws))) |->
          Proc("balance", Head(ws), WalletAssets(Head(ws))[i])]
         \o PortfolioTasks(Tail(ws))

ProcsOf(req) ==
  CASE req.kind = "portfolio" -> PortfolioTasks(req.wallets)
    [] req.kind = "balance"   -> <<Proc("balance", req.wallets[1], req.asset)>>
    [] req.kind = "token"     -> <<Proc("token", req.wallets[1], req.asset)>>
    [] req.kind = "prices"    -> [i \in 1..PriceCallers |-> Proc("prices", NoWallet, None)]
    [] req.kind = "price"     -> <<Proc("price", NoWallet, req.asset)>>
    [] req.kind = "rate"      -> [i \in 1..PriceCallers |-> Proc("rate", NoWallet, None)]
    [] req.kind = "wallet"    -> <<Proc("wallet", req.wallets[1], None)>>

P == 1..Len(procs)

EmptyDict == [x \in {} |-> 0]

Zero == [c |-> 0, e |-> 0]

NoLocals ==
  [symbol |-> None, balance |-> Zero, price_usd |-> 0, ngn_rate |-> 0,
   exc |-> NoException, prices |-> EmptyDict, quote |-> EmptyDict,
   response |-> EmptyDict]

NoResponse ==
  [status |-> "pending", total_value_usd |-> 0, total_value_ngn |-> 0, wallets |-> << >>]

Init ==
  /\ request \in Requests
  /\ procs = ProcsOf(request)
  /\ pc = [p \in 1..Len(procs) |-> IF procs[p].op = "prices" THEN "prices" ELSE "start"]
  /\ loc = [p \in 1..Len(procs) |-> NoLocals]
  /\ calls = NoCalls
  /\ client = FALSE
  /\ reachable = TRUE
  /\ cache = EmptyDict
  /\ wres = [w \in 1..Len(request.wallets) |-> [done |-> FALSE, raised |-> FALSE, results |-> << >>]]
  /\ response = NoResponse
  /\ documents = {}

\* ------------------------------------------------------------ cache (app/cache.py)

\* dict.get(field, default)
Get(d, field, default) == IF field \in DOMAIN d THEN d[field] ELSE default

\* Cache.get and Cache.set await the client's call (lines 35 and 48) inside no
\* try: with a client whose server is away the call raises, and so does the
\* service function that awaits it.
CacheFails == client /\ ~reachable

\* Cache.get returns a value (not None): the client is set, the server answers
\* and the key is stored.
CacheHit(store, key) == client /\ reachable /\ key \in DOMAIN store

\* Cache.set: no client, no write.
CacheSet(store, key, value) ==
  IF client
    THEN [k \in DOMAIN store \cup {key} |-> IF k = key THEN value ELSE store[k]]
    ELSE store

\* float(balance), as json.dumps writes it: the shortest decimal string of the
\* double, which for these magnitudes has the Decimal's digits.
FloatOfDecimal(balance) == Normalize(balance.c, balance.e)

\* Decimal(str(cached)): str of a float always shows a fraction ("1000.0", "0.0").
DecimalOfCached(f) ==
  IF f.e >= 0 THEN [c |-> f.c * Pow10(f.e + 1), e |-> -1] ELSE f

\* "if cached:" on a cached float is false for 0.0.
Truthy(f) == f.c # 0

\* The responses a source can give when it is asked; when it is not asked (the
\* cache answers), what it would have said plays no part.
Asked(responses, asked) == IF asked THEN responses ELSE {CHOOSE r \in responses : TRUE}

TickerAsked == ~CacheHit(cache, CACHE_KEY_PRICES)

RateAsked == ~(CacheHit(cache, CACHE_KEY_NGN_RATE) /\ cache[CACHE_KEY_NGN_RATE] # 0)

\* ------------------------------------------------------------ balance readers

\* What a reader or a service function does when called: the exception it raises
\* or the value it returns, the store it leaves, the calls it made.
Raised(exc, store, made) == [exc |-> exc, value |-> EmptyDict, store |-> store, calls |-> made]

Returned(value, store, made) == [exc |-> NoException, value |-> value, store |-> store, calls |-> made]

\* A native reader that stores 0 for a response without a result before it
\* raises.
EvmBalanceStoringEmpty(store, wallet, resp) ==
  LET cache_key == <<"balance", wallet.network, wallet.address>>
  IN  IF CacheFails THEN Raised(ConnectionError, store, Called({"cache"}))
      ELSE IF CacheHit(store, cache_key) /\ Truthy(store[cache_key])
        THEN Returned(DecimalOfCached(store[cache_key]), store, Called({"cache"}))
      ELSE IF resp.kind \in {"http_error", "rpc_error"}
        THEN Raised(ExternalAPIError("RPC", IF resp.kind = "http_error" THEN "HTTP error" ELSE "error"),
                    store, Called({"cache", "chain", "chain failed"}))
      ELSE IF resp.kind = "empty"
        THEN Raised(ExternalAPIError("RPC", "No result in RPC response"),
                    CacheSet(store, cache_key, [c |-> 0, e |-> 0]),
                    Plus(Called({"cache", "chain", "chain failed"}), Called({"cache"})))
      ELSE LET balance == DecimalOfUnits(resp.raw, WEI_DECIMALS)
           IN  Returned(balance, CacheSet(store, cache_key, FloatOfDecimal(balance)),
                        Plus(Called({"cache", "chain"}), Called({"cache"})))

\* A native reader that decodes a response without a result as 0, as the token
\* reader does.
EvmBalanceEmptyAsZero(store, wallet, resp) ==
  LET cache_key == <<"balance", wallet.network, wallet.address>>
  IN  IF CacheFails THEN Raised(ConnectionError, store, Called({"cache"}))
      ELSE IF CacheHit(store, cache_key) /\ Truthy(store[cache_key])
        THEN Returned(DecimalOfCached(store[cache_key]), store, Called({"cache"}))
      ELSE IF resp.kind \in {"http_error", "rpc_error"}
        THEN Raised(ExternalAPIError("RPC", IF resp.kind = "http_error" THEN "HTTP error" ELSE "error"),
                    store, Called({"cache", "chain", "chain failed"}))
      ELSE IF resp.kind = "empty_string"
        THEN Raised(ValueError, store, Called({"cache", "chain", "chain failed"}))
      ELSE LET result == IF resp.kind = "result" THEN resp.raw ELSE [m |-> 0, k |-> 0]
               balance == DecimalOfUnits(result, WEI_DECIMALS)
           IN  Returned(balance, CacheSet(store, cache_key, FloatOfDecimal(balance)),
                        Plus(Called({"cache", "chain"}), Called({"cache"})))

\* _get_evm_balance(address, network): "if not result" (line 214) holds for a
\* result that is missing, null or the empty string; "0x" passes it and
\* int("0x", 16) raises ValueError, which line 223 does not catch.
EvmBalance(store, wallet, resp) ==
  LET cache_key == <<"balance", wallet.network, wallet.address>>
  IN  IF CacheFails THEN Raised(ConnectionError, store, Called({"cache"}))
      ELSE IF CacheHit(store, cache_key) /\ Truthy(store[cache_key])
        THEN Returned(DecimalOfCached(store[cache_key]), store, Called({"cache"}))
      ELSE IF resp.kind = "http_error"
        THEN Raised(ExternalAPIError("RPC", "HTTP error"), store, Called({"cache", "chain", "chain failed"}))
      ELSE IF resp.kind = "rpc_error"
        THEN Raised(ExternalAPIError("RPC", "error"), store,
                    Called({"cache", "chain", "chain failed"}))
      ELSE IF resp.kind \in {"empty", "null", "empty_string"}
        THEN Raised(ExternalAPIError("RPC", "No result in RPC response"), store,
                    Called({"cache", "chain", "chain failed"}))
      ELSE IF resp.kind = "empty_hex"
        THEN Raised(ValueError, store, Called({"cache", "chain", "chain failed"}))
      ELSE LET balance == DecimalOfUnits(resp.raw, WEI_DECIMALS)
           IN  Returned(balance, CacheSet(store, cache_key, FloatOfDecimal(balance)),
                        Plus(Called({"cache", "chain"}), Called({"cache"})))

\* A token reader that takes an error object for a body without a result.
TokenReadErrorAsEmpty(store, wallet, token_symbol, resp) ==
  LET decimals == TOKEN_CONFIG(wallet.network)[Lower(token_symbol)].decimals
      cache_key == <<"balance", wallet.network, token_symbol, wallet.address>>
  IN  IF CacheFails THEN Raised(ConnectionError, store, Called({"cache"}))
      ELSE IF CacheHit(store, cache_key)
        THEN Returned(DecimalOfCached(store[cache_key]), store, Called({"cache"}))
      ELSE IF resp.kind = "http_error"
        THEN Raised(ExternalAPIError("RPC", "HTTP error"), store,
                    Called({"cache", "chain", "chain failed"}))
      ELSE LET result == IF resp.kind \in {"empty", "rpc_error"} THEN [m |-> 0, k |-> 0] ELSE resp.raw
               balance == DecimalOfUnits(result, decimals)
           IN  Returned(balance, CacheSet(store, cache_key, FloatOfDecimal(balance)),
                        Plus(Called({"cache", "chain"}), Called({"cache"})))

\* A token reader that keeps its balance under the key of the native one.
TokenReadNativeKey(store, wallet, token_symbol, resp) ==
  LET decimals == TOKEN_CONFIG(wallet.network)[Lower(token_symbol)].decimals
      cache_key == <<"balance", wallet.network, wallet.address>>
  IN  IF CacheFails THEN Raised(ConnectionError, store, Called({"cache"}))
      ELSE IF CacheHit(store, cache_key)
        THEN Returned(DecimalOfCached(store[cache_key]), store, Called({"cache"}))
      ELSE IF resp.kind = "http_error"
        THEN Raised(ExternalAPIError("RPC", "HTTP error"), store, Called({"cache", "chain", "chain failed"}))
      ELSE IF resp.kind = "rpc_error"
        THEN Raised(ExternalAPIError("RPC", "error"), store,
                    Called({"cache", "chain", "chain failed"}))
      ELSE LET result == IF resp.kind = "empty" THEN [m |-> 0, k |-> 0] ELSE resp.raw
               balance == DecimalOfUnits(result, decimals)
           IN  Returned(balance, CacheSet(store, cache_key, FloatOfDecimal(balance)),
                        Plus(Called({"cache", "chain"}), Called({"cache"})))

\* _get_token_balance, lines 122-174: the cached balance, or the eth_call.
TokenRead(store, wallet, token_symbol, resp) ==
  LET decimals == TOKEN_CONFIG(wallet.network)[Lower(token_symbol)].decimals
      cache_key == <<"balance", wallet.network, token_symbol, wallet.address>>
  IN  IF CacheFails THEN Raised(ConnectionError, store, Called({"cache"}))
      ELSE IF CacheHit(store, cache_key)
        THEN Returned(DecimalOfCached(store[cache_key]), store, Called({"cache"}))
      ELSE IF resp.kind = "http_error"
        THEN Raised(ExternalAPIError("RPC", "HTTP error"), store, Called({"cache", "chain", "chain failed"}))
      ELSE IF resp.kind = "rpc_error"
        THEN Raised(ExternalAPIError("RPC", "error"), store,
                    Called({"cache", "chain", "chain failed"}))
      ELSE IF resp.kind = "empty_string"
        THEN Raised(ValueError, store, Called({"cache", "chain", "chain failed"}))
      ELSE LET result == IF resp.kind \in {"empty", "null", "empty_hex"}
                           THEN [m |-> 0, k |-> 0] ELSE resp.raw
               balance == DecimalOfUnits(result, decimals)
           IN  Returned(balance, CacheSet(store, cache_key, FloatOfDecimal(balance)),
                        Plus(Called({"cache", "chain"}), Called({"cache"})))

\* A token reader that asks the cache before it looks the token up.
TokenBalanceCacheFirst(store, wallet, token_symbol, resp) ==
  IF Lower(token_symbol) \notin DOMAIN TOKEN_CONFIG(wallet.network)
    THEN Raised(BlockAiException("not configured"), store, Called({"cache"}))
    ELSE TokenRead(store, wallet, token_symbol, resp)

\* _get_token_balance(address, network, token_symbol): lines 115-120 reject a
\* token without an entry for the network before anything else is done.
TokenBalance(store, wallet, token_symbol, resp) ==
  IF Lower(token_symbol) \notin DOMAIN TOKEN_CONFIG(wallet.network)
    THEN Raised(BlockAiException("not configured"), store, NoCalls)
    ELSE TokenRead(store, wallet, token_symbol, resp)

\* A bitcoin reader that counts the confirmed amounts only.
BtcBalanceConfirmedOnly(store, wallet, resp) ==
  LET cache_key == <<"balance", "bitcoin", wallet.address>>
  IN  IF CacheFails THEN Raised(ConnectionError, store, Called({"cache"}))
      ELSE IF CacheHit(store, cache_key) /\ Truthy(store[cache_key])
        THEN Returned(DecimalOfCached(store[cache_key]), store, Called({"cache"}))
      ELSE IF resp.kind = "http_error"
        THEN Raised(ExternalAPIError("Blockstream", "HTTP error"), store,
                    Called({"cache", "explorer", "explorer failed"}))
      ELSE LET chain == Get(resp.body, "chain_stats", EmptyDict)
               balance_satoshi == Get(chain, "funded_txo_sum", 0) - Get(chain, "spent_txo_sum", 0)
               balance == DecimalOfUnits([m |-> balance_satoshi, k |-> 0], SATOSHI_DECIMALS)
           IN  Returned(balance, CacheSet(store, cache_key, FloatOfDecimal(balance)),
                        Plus(Called({"cache", "explorer"}), Called({"cache"})))

\* _get_btc_balance(address)
BtcBalance(store, wallet, resp) ==
  LET cache_key == <<"balance", "bitcoin", wallet.address>>
  IN  IF CacheFails THEN Raised(ConnectionError, store, Called({"cache"}))
      ELSE IF CacheHit(store, cache_key) /\ Truthy(store[cache_key])
        THEN Returned(DecimalOfCached(store[cache_key]), store, Called({"cache"}))
      ELSE IF resp.kind = "http_error"
        THEN Raised(ExternalAPIError("Blockstream", "HTTP error"), store,
                    Called({"cache", "explorer", "explorer failed"}))
      ELSE LET chain == Get(resp.body, "chain_stats", EmptyDict)
               mempool == Get(resp.body, "mempool_stats", EmptyDict)
               funded == Get(chain, "funded_txo_sum", 0) + Get(mempool, "funded_txo_sum", 0)
               spent == Get(chain, "spent_txo_sum", 0) + Get(mempool, "spent_txo_sum", 0)
               balance_satoshi == funded - spent
               balance == DecimalOfUnits([m |-> balance_satoshi, k |-> 0], SATOSHI_DECIMALS)
           IN  Returned(balance, CacheSet(store, cache_key, FloatOfDecimal(balance)),
                        Plus(Called({"cache", "explorer"}), Called({"cache"})))

\* ------------------------------------------------------------ price service

\* get_all_binance_tickers: the rows of the required pairs.  An HTTP error is
\* raised as ExternalAPIError, anything else the parsing raises is not caught.
BinanceTickers(resp) ==
  CASE resp.kind = "http_error" ->
         [exc |-> ExternalAPIError("Binance", "HTTP error"), result |-> EmptyDict]
    [] resp.kind = "malformed"  -> [exc |-> KeyError, result |-> EmptyDict]
    [] resp.kind = "ok" ->
         [exc |-> NoException, result |-> [s \in DOMAIN resp.body \cap REQUIRED_SYMBOLS |-> resp.body[s]]]

\* get_quidax_ticker("usdtngn"): HTTP errors, an error status, KeyError and
\* ValueError are all raised as ExternalAPIError.  The TypeError of a null
\* (data["data"]["ticker"] or float(ticker["last"])) is none of these.
QuidaxTicker(resp) ==
  CASE resp.kind = "ok" -> [exc |-> NoException, last |-> resp.last]
    [] resp.kind = "null_field" -> [exc |-> TypeError, last |-> 0]
    [] OTHER -> [exc |-> ExternalAPIError("Quidax", resp.kind), last |-> 0]

\* A get_ngn_rate that caches whatever it returns, the fallback too.
NgnRateCachingFallback(store, resp) ==
  IF CacheFails THEN Raised(ConnectionError, store, Called({"cache"}))
  ELSE IF CacheHit(store, CACHE_KEY_NGN_RATE) /\ store[CACHE_KEY_NGN_RATE] # 0
    THEN Returned(store[CACHE_KEY_NGN_RATE], store, Called({"cache"}))
  ELSE LET ticker == QuidaxTicker(resp)
           rate == IF ticker.exc = NoException THEN ticker.last ELSE FALLBACK_NGN_RATE
           asked == IF ticker.exc = NoException
                      THEN Called({"cache", "fiat"})
                      ELSE Called({"cache", "fiat", "fiat failed"})
       IN  IF ticker.exc.type \notin {None, "ExternalAPIError"}
             THEN Raised(ticker.exc, store, asked)
             ELSE Returned(rate, CacheSet(store, CACHE_KEY_NGN_RATE, rate),
                           Plus(asked, Called({"cache"})))

\* A get_ngn_rate that asks the source a second time when its ticker failed.
NgnRateRetrying(store, resp) ==
  IF CacheFails THEN Raised(ConnectionError, store, Called({"cache"}))
  ELSE IF CacheHit(store, CACHE_KEY_NGN_RATE) /\ store[CACHE_KEY_NGN_RATE] # 0
    THEN Returned(store[CACHE_KEY_NGN_RATE], store, Called({"cache"}))
  ELSE LET ticker == QuidaxTicker(resp)
       IN  IF ticker.exc # NoException
             THEN Returned(FALLBACK_NGN_RATE, store,
                           Plus(Called({"cache", "fiat", "fiat failed"}),
                                Called({"fiat", "fiat failed"})))
             ELSE Returned(ticker.last, CacheSet(store, CACHE_KEY_NGN_RATE, ticker.last),
                           Plus(Called({"cache", "fiat"}), Called({"cache"})))

\* get_ngn_rate()
NgnRate(store, resp) ==
  IF CacheFails THEN Raised(ConnectionError, store, Called({"cache"}))
  ELSE IF CacheHit(store, CACHE_KEY_NGN_RATE) /\ store[CACHE_KEY_NGN_RATE] # 0
    THEN Returned(store[CACHE_KEY_NGN_RATE], store, Called({"cache"}))
  ELSE LET ticker == QuidaxTicker(resp)
       IN  IF ticker.exc.type = "ExternalAPIError"
             THEN Returned(FALLBACK_NGN_RATE, store, Called({"cache", "fiat", "fiat failed"}))
           ELSE IF ticker.exc # NoException
             THEN Raised(ticker.exc, store, Called({"cache", "fiat", "fiat failed"}))
             ELSE Returned(ticker.last, CacheSet(store, CACHE_KEY_NGN_RATE, ticker.last),
                           Plus(Called({"cache", "fiat"}), Called({"cache"})))

PairOf(field) ==
  CASE field = "btc" -> "BTCUSDT" [] field = "eth" -> "ETHUSDT"
    [] field = "bnb" -> "BNBUSDT" [] field = "matic" -> "MATICUSDT"
    [] field = "usdc" -> "USDCUSDT"

\* A table that takes every price, usdt's too, from the tickers.
PriceRowsUnpinned(tickers) ==
  [f \in PriceFields |->
     Get(tickers, IF f = "usdt" THEN "USDTUSDT" ELSE PairOf(f), Row(0, 0))]

\* get_all_prices, lines 99-106: a missing pair is priced 0, usdt is 1.0.
PriceRows(tickers) ==
  [f \in PriceFields |->
     IF f = "usdt" THEN Row(USDT_PRICE, 0) ELSE Get(tickers, PairOf(f), Row(0, 0))]

\* make_response
AssetPrice(symbol, data, ngn_rate) ==
  [symbol |-> symbol, price_usd |-> data.price, price_ngn |-> data.price * ngn_rate,
   change_24h |-> data.change_24h]

\* A table whose usdt entry is valued at the fallback rate, whatever rate values
\* the others.
BuildPricesAtTwoRates(tickers, ngn_rate) ==
  [f \in PriceFields |->
     AssetPrice(Upper(f), PriceRows(tickers)[f],
                IF f = "usdt" THEN FALLBACK_NGN_RATE ELSE ngn_rate)]

\* get_all_prices, lines 118-125: the table, keyed by field.
BuildPrices(tickers, ngn_rate) ==
  [f \in PriceFields |-> AssetPrice(Upper(f), PriceRows(tickers)[f], ngn_rate)]

\* A get_all_prices that builds the table and does not write its entry.
FetchPricesUnsaved(store, tresp, qresp) ==
  LET fetched == BinanceTickers(tresp)
      tickers == IF fetched.exc.type = "ExternalAPIError" THEN EmptyDict ELSE fetched.result
      asked == IF fetched.exc = NoException
                 THEN Called({"cache", "ticker"})
                 ELSE Called({"cache", "ticker", "ticker failed"})
      rate == NgnRate(store, qresp)
  IN  IF fetched.exc.type \notin {None, "ExternalAPIError"}
        THEN Raised(fetched.exc, store, asked)
      ELSE IF rate.exc # NoException
        THEN Raised(rate.exc, rate.store, Plus(asked, rate.calls))
        ELSE Returned(BuildPrices(tickers, rate.value), rate.store, Plus(asked, rate.calls))

\* A get_all_prices that writes no entry for a table built without the tickers.
FetchPricesSkippingFailed(store, tresp, qresp) ==
  LET fetched == BinanceTickers(tresp)
      tickers == IF fetched.exc.type = "ExternalAPIError" THEN EmptyDict ELSE fetched.result
      asked == IF fetched.exc = NoException
                 THEN Called({"cache", "ticker"})
                 ELSE Called({"cache", "ticker", "ticker failed"})
      rate == NgnRate(store, qresp)
      result == BuildPrices(tickers, rate.value)
  IN  IF fetched.exc.type \notin {None, "ExternalAPIError"}
        THEN Raised(fetched.exc, store, asked)
      ELSE IF rate.exc # NoException
        THEN Raised(rate.exc, rate.store, Plus(asked, rate.calls))
      ELSE IF fetched.exc # NoException
        THEN Returned(result, rate.store, Plus(asked, rate.calls))
        ELSE Returned(result, CacheSet(rate.store, CACHE_KEY_PRICES, result),
                      Plus(Plus(asked, rate.calls), Called({"cache"})))

\* get_all_prices, lines 91-130: the tickers, the rate, the table, its entry.
FetchPrices(store, tresp, qresp) ==
  LET fetched == BinanceTickers(tresp)
      tickers == IF fetched.exc.type = "ExternalAPIError" THEN EmptyDict ELSE fetched.result
      asked == IF fetched.exc = NoException
                 THEN Called({"cache", "ticker"})
                 ELSE Called({"cache", "ticker", "ticker failed"})
      rate == NgnRate(store, qresp)
      result == BuildPrices(tickers, rate.value)
  IN  IF fetched.exc.type \notin {None, "ExternalAPIError"}
        THEN Raised(fetched.exc, store, asked)
      ELSE IF rate.exc # NoException
        THEN Raised(rate.exc, rate.store, Plus(asked, rate.calls))
        ELSE Returned(result, CacheSet(rate.store, CACHE_KEY_PRICES, result),
                      Plus(Plus(asked, rate.calls), Called({"cache"})))

\* A get_all_prices that builds the table anew at every call.
AllPricesUncached(store, tresp, qresp) == FetchPrices(store, tresp, qresp)

\* get_all_prices(): the cached table (lines 87-89: json.loads gives back the
\* floats json.dumps wrote, digit for digit), or a table built and cached.
AllPrices(store, tresp, qresp) ==
  IF CacheFails THEN Raised(ConnectionError, store, Called({"cache"}))
  ELSE IF CacheHit(store, CACHE_KEY_PRICES)
    THEN Returned(store[CACHE_KEY_PRICES], store, Called({"cache"}))
    ELSE FetchPrices(store, tresp, qresp)

\* get_price_for_symbol(symbol): hasattr(prices, symbol_lower) holds for a field
\* and for a method; a method has no price_usd.
PriceForSymbol(store, symbol, tresp, qresp) ==
  LET prices == AllPrices(store, tresp, qresp)
      symbol_lower == Lower(symbol)
  IN  IF prices.exc # NoException THEN prices
      ELSE IF symbol_lower \in DOMAIN prices.value
        THEN Returned(prices.value[symbol_lower].price_usd, prices.store, prices.calls)
      ELSE IF symbol_lower \in ModelMethods
        THEN Raised(AttributeError, prices.store, prices.calls)
        ELSE Returned(0, prices.store, prices.calls)

\* ------------------------------------------------------------ get_wallet_balance

\* _is_native_asset
IsNativeAsset(asset) == Upper(asset) \in NativeSymbols

\* A lookup that finds no network for any asset.
NoNativeAssetNetwork(asset) == None

\* _get_native_asset_network
NativeAssetNetwork(asset) ==
  IF \E n \in NetworkType : NATIVE_ASSETS[n] = Upper(asset)
    THEN CHOOSE n \in NetworkType : NATIVE_ASSETS[n] = Upper(asset)
    ELSE None

\* A target that is the asset as it was given.
TargetAssetAsGiven(wallet, asset) ==
  IF asset # None /\ asset # "" THEN asset ELSE NATIVE_ASSETS[wallet.network]

\* Lines 282-285: asset.upper() if asset else None, then the network's native asset.
TargetAsset(wallet, asset) ==
  IF asset # None /\ asset # "" THEN Upper(asset) ELSE NATIVE_ASSETS[wallet.network]

\* The responses the endpoint of a wallet's network can give to a read.
ReadResponses(wallet, asset) ==
  IF wallet.network = "bitcoin"
    THEN {[kind |-> r.kind, raw |-> [m |-> 0, k |-> 0], body |-> r.body] : r \in ExplorerResponses}
    ELSE {[kind |-> r.kind, raw |-> r.raw, body |-> EmptyDict] :
            r \in RpcResponses(IF IsNativeAsset(TargetAsset(wallet, asset))
                                  \/ Lower(asset) \notin DOMAIN TOKEN_CONFIG(wallet.network)
                                 THEN WEI_DECIMALS
                                 ELSE TOKEN_CONFIG(wallet.network)[Lower(asset)].decimals)}

\* A dispatch by the wallet's network alone, without the validation.
ReadBalanceByNetwork(store, wallet, asset, resp) ==
  LET target_asset == TargetAsset(wallet, asset)
  IN  IF wallet.network = "bitcoin"
        THEN [symbol |-> "BTC", read |-> BtcBalance(store, wallet, resp)]
      ELSE IF IsNativeAsset(target_asset)
        THEN [symbol |-> NATIVE_ASSETS[wallet.network], read |-> EvmBalance(store, wallet, resp)]
      ELSE [symbol |-> target_asset,
            read |-> TokenBalance(store, wallet, target_asset, resp)]

\* Lines 279-324: validation and dispatch.  The exception raised, or the balance
\* the reader returns, with the symbol of the quote.
ReadBalance(store, wallet, asset, resp) ==
  LET target_asset == TargetAsset(wallet, asset)
      network == wallet.network
      rejected(message) ==
        [symbol |-> None, read |-> Raised(BlockAiException(message), store, NoCalls)]
  IN  IF IsNativeAsset(target_asset)
        THEN IF NativeAssetNetwork(target_asset) # None
                  /\ NativeAssetNetwork(target_asset) # network
               THEN rejected("native currency of another network")
             ELSE IF network = "bitcoin"
               THEN [symbol |-> "BTC", read |-> BtcBalance(store, wallet, resp)]
             ELSE [symbol |-> NATIVE_ASSETS[network], read |-> EvmBalance(store, wallet, resp)]
      ELSE IF network = "bitcoin" THEN rejected("not supported on Bitcoin network")
      ELSE IF Lower(target_asset) \notin DOMAIN TOKEN_CONFIG(network)
        THEN rejected("not supported on the network")
      ELSE [symbol |-> target_asset,
            read |-> TokenBalance(store, wallet, target_asset, resp)]

\* A quote whose fiat value is the rounded usd value times the rate.
QuoteFromRounded(wallet, symbol, balance, price_usd, ngn_rate) ==
  LET balance_usd == RoundHalfEven(balance.c * price_usd, Pow10(-balance.e))
  IN  [id |-> wallet.id, network |-> wallet.network, address |-> wallet.address,
       asset |-> symbol, balance |-> balance,
       balance_usd |-> balance_usd, balance_ngn |-> balance_usd * ngn_rate]

\* A quote that leaves out the wallet's id.
QuoteWithoutId(wallet, symbol, balance, price_usd, ngn_rate) ==
  [id |-> None, network |-> wallet.network, address |-> wallet.address,
   asset |-> symbol, balance |-> balance,
   balance_usd |-> RoundHalfEven(balance.c * price_usd, Pow10(-balance.e)),
   balance_ngn |-> RoundHalfEven(balance.c * price_usd * ngn_rate, Pow10(-balance.e))]

\* Lines 329-340: balance_usd = float(balance) * price_usd and balance_ngn =
\* balance_usd * ngn_rate are computed unrounded, and each is rounded to two
\* decimals for the response.
Quote(wallet, symbol, balance, price_usd, ngn_rate) ==
  [id |-> wallet.id, network |-> wallet.network, address |-> wallet.address,
   asset |-> symbol, balance |-> balance,
   balance_usd |-> RoundHalfEven(balance.c * price_usd, Pow10(-balance.e)),
   balance_ngn |-> RoundHalfEven(balance.c * price_usd * ngn_rate, Pow10(-balance.e))]

\* The calls are counted for an operation the request invokes itself, not for
\* the tasks of a portfolio.
Count(made) == IF request.kind = "portfolio" THEN calls ELSE Plus(calls, made)

\* A coroutine that answers an exception of its callee with an empty result.
RaiseDegraded(p, r) ==
  /\ pc' = [pc EXCEPT ![p] = "returned"]
  /\ loc' = [loc EXCEPT ![p] = NoLocals]
  /\ calls' = Count(r.calls)
  /\ cache' = r.store

\* A coroutine raises: its locals are gone, the exception is what is left.
Raise(p, r) ==
  /\ pc' = [pc EXCEPT ![p] = "raised"]
  /\ loc' = [loc EXCEPT ![p] = [NoLocals EXCEPT !.exc = r.exc]]
  /\ calls' = Count(r.calls)
  /\ cache' = r.store

\* get_wallet_balance(wallet, asset) through its balance read (lines 279-324).
GetWalletBalance(p) ==
  /\ procs[p].op = "balance"
  /\ pc[p] = "start"
  /\ \E resp \in ReadResponses(procs[p].wallet, procs[p].asset) :
       LET r == ReadBalance(cache, procs[p].wallet, procs[p].asset, resp)
       IN  IF r.read.exc # NoException THEN Raise(p, r.read)
           ELSE /\ pc' = [pc EXCEPT ![p] = "price"]
                /\ loc' = [loc EXCEPT ![p].symbol = r.symbol, ![p].balance = r.read.value]
                /\ calls' = Count(r.read.calls)
                /\ cache' = r.read.store
  /\ UNCHANGED <<request, procs, client, reachable, wres, response, documents>>

\* get_wallet_balance, line 326: price_service.get_price_for_symbol(symbol).
GetPriceForSymbol(p) ==
  /\ procs[p].op = "balance"
  /\ pc[p] = "price"
  /\ \E tresp \in Asked(TickerResponses, TickerAsked),
        qresp \in Asked(QuidaxResponses, TickerAsked /\ RateAsked) :
       LET r == PriceForSymbol(cache, loc[p].symbol, tresp, qresp)
       IN  IF r.exc # NoException THEN Raise(p, r)
           ELSE /\ pc' = [pc EXCEPT ![p] = "rate"]
                /\ loc' = [loc EXCEPT ![p].price_usd = r.value]
                /\ calls' = Count(r.calls)
                /\ cache' = r.store
  /\ UNCHANGED <<request, procs, client, reachable, wres, response, documents>>

\* get_wallet_balance, lines 327-340: price_service.get_ngn_rate(), then the quote.
GetNgnRate(p) ==
  /\ procs[p].op = "balance"
  /\ pc[p] = "rate"
  /\ \E qresp \in Asked(QuidaxResponses, RateAsked) :
       LET r == NgnRate(cache, qresp)
       IN  IF r.exc # NoException THEN Raise(p, r)
           ELSE /\ pc' = [pc EXCEPT ![p] = "returned"]
                /\ loc' = [loc EXCEPT ![p] =
                              [NoLocals EXCEPT !.quote = Quote(procs[p].wallet, loc[p].symbol,
                                                               loc[p].balance, loc[p].price_usd,
                                                               r.value)]]
                /\ calls' = Count(r.calls)
                /\ cache' = r.store
  /\ UNCHANGED <<request, procs, client, reachable, wres, response, documents>>

\* A response that passes the whole document on.
ToResponseWhole(wallet) == wallet

\* wallet_service.to_response(wallet), lines 112-117.
ToResponse(wallet) ==
  [id |-> wallet.id, network |-> wallet.network, address |-> wallet.address,
   created_at |-> wallet.created_at]

\* GET /wallets/{wallet_id} (routes/wallets.py, lines 81-82), the wallet found:
\* the response is to_response(wallet).
GetWalletResponse(p) ==
  /\ procs[p].op = "wallet"
  /\ pc[p] = "start"
  /\ pc' = [pc EXCEPT ![p] = "returned"]
  /\ loc' = [loc EXCEPT ![p] = [NoLocals EXCEPT !.response = ToResponse(procs[p].wallet)]]
  /\ UNCHANGED <<request, procs, calls, client, reachable, cache, wres, response, documents>>

\* get_price_for_symbol(symbol), called alone.
GetPrice(p) ==
  /\ procs[p].op = "price"
  /\ pc[p] = "start"
  /\ \E tresp \in Asked(TickerResponses, TickerAsked),
        qresp \in Asked(QuidaxResponses, TickerAsked /\ RateAsked) :
       LET r == PriceForSymbol(cache, procs[p].asset, tresp, qresp)
       IN  IF r.exc # NoException THEN Raise(p, r)
           ELSE /\ pc' = [pc EXCEPT ![p] = "returned"]
                /\ loc' = [loc EXCEPT ![p].symbol = procs[p].asset, ![p].price_usd = r.value]
                /\ calls' = Count(r.calls)
                /\ cache' = r.store
  /\ UNCHANGED <<request, procs, client, reachable, wres, response, documents>>

\* get_ngn_rate(), called alone.
GetRate(p) ==
  /\ procs[p].op = "rate"
  /\ pc[p] = "start"
  /\ \E qresp \in Asked(QuidaxResponses, RateAsked) :
       LET r == NgnRate(cache, qresp)
       IN  IF r.exc # NoException THEN Raise(p, r)
           ELSE /\ pc' = [pc EXCEPT ![p] = "returned"]
                /\ loc' = [loc EXCEPT ![p].ngn_rate = r.value]
                /\ calls' = Count(r.calls)
                /\ cache' = r.store
  /\ UNCHANGED <<request, procs, client, reachable, wres, response, documents>>

\* _get_token_balance(address, network, token_symbol), called alone.
GetTokenBalance(p) ==
  /\ procs[p].op = "token"
  /\ pc[p] = "start"
  /\ \E resp \in ReadResponses(procs[p].wallet, procs[p].asset) :
       LET r == TokenBalance(cache, procs[p].wallet, procs[p].asset, resp)
       IN  IF r.exc # NoException THEN Raise(p, r)
           ELSE /\ pc' = [pc EXCEPT ![p] = "returned"]
                /\ loc' = [loc EXCEPT ![p].symbol = procs[p].asset, ![p].balance = r.value]
                /\ calls' = Count(r.calls)
                /\ cache' = r.store
  /\ UNCHANGED <<request, procs, client, reachable, wres, response, documents>>

\* get_all_prices(), called by the route or the refresh loop.
GetAllPrices(p) ==
  /\ procs[p].op = "prices"
  /\ pc[p] = "prices"
  /\ \E tresp \in Asked(TickerResponses, TickerAsked),
        qresp \in Asked(QuidaxResponses, TickerAsked /\ RateAsked) :
       LET r == AllPrices(cache, tresp, qresp)
       IN  IF r.exc # NoException THEN Raise(p, r)
           ELSE /\ pc' = [pc EXCEPT ![p] = "returned"]
                /\ loc' = [loc EXCEPT ![p].prices = r.value]
                /\ calls' = Count(r.calls)
                /\ cache' = r.store
  /\ UNCHANGED <<request, procs, client, reachable, wres, response, documents>>

\* ------------------------------------------------------------ get_portfolio_value

RECURSIVE TaskBase(_)
TaskBase(w) ==
  IF w <= 1 THEN 0 ELSE TaskBase(w - 1) + Len(WalletAssets(request.wallets[w - 1]))

\* The coroutines of wallet w's tasks, in task order.
TasksOf(w) == [i \in 1..Len(WalletAssets(request.wallets[w])) |-> TaskBase(w) + i]

\* A task counts as finished only when it returned a quote.
FinishedWithQuote(p) == pc[p] = "returned"

Finished(p) == pc[p] \in {"returned", "raised"}

\* asyncio.gather(*tasks) once every task has finished.  With
\* return_exceptions=False the first exception is raised to the awaiter.
GatherFailFast(ps) ==
  [raised |-> \E i \in 1..Len(ps) : pc[ps[i]] = "raised",
   responses |-> [i \in 1..Len(ps) |->
                    [exception |-> pc[ps[i]] = "raised", value |-> loc[ps[i]].quote]]]

\* asyncio.gather(*tasks, return_exceptions=True), line 357: every task's
\* outcome, an exception in the place of the result of a task that raised.
Gather(ps) ==
  [raised |-> FALSE,
   responses |-> [i \in 1..Len(ps) |->
                    [exception |-> pc[ps[i]] = "raised", value |-> loc[ps[i]].quote]]]

\* A filter that keeps positive balances only.
KeepPositive(resp) == IsPositive(resp.balance)

\* Line 363: float(resp.balance) > 0 or resp.asset in ["ETH", "BTC", "BNB", "MATIC"]
Keep(resp) == IsPositive(resp.balance) \/ resp.asset \in {"ETH", "BTC", "BNB", "MATIC"}

\* A loop without the isinstance(resp, Exception) test of line 360.
KeptUnchecked(r) == r.exception \/ Keep(r.value)

\* Lines 360-363: a response that is no exception and passes the filter.
Kept(r) == ~r.exception /\ Keep(r.value)

\* Lines 359-366: the quotes of the responses that are no exception and are kept.
Results(responses) ==
  LET kept == SelectSeq(responses, Kept)
  IN  [i \in 1..Len(kept) |-> kept[i].value]

\* fetch_wallet_balances(wallet) after its gather.
FetchWalletBalances(w) ==
  /\ request.kind = "portfolio"
  /\ ~wres[w].done
  /\ \A i \in 1..Len(TasksOf(w)) : Finished(TasksOf(w)[i])
  /\ LET g == Gather(TasksOf(w))
     IN  wres' = [wres EXCEPT ![w] =
                    [done |-> TRUE, raised |-> g.raised,
                     results |-> IF g.raised THEN << >> ELSE Results(g.responses)]]
  /\ UNCHANGED <<request, procs, pc, loc, calls, client, reachable, cache, response, documents>>

\* Lines 374-385: the results of the wallets that did not raise, flattened.
RECURSIVE Flatten(_)
Flatten(rs) ==
  IF rs = << >> THEN << >>
  ELSE (IF Head(rs).raised THEN << >> ELSE Head(rs).results) \o Flatten(Tail(rs))

RECURSIVE SumUsd(_)
SumUsd(qs) == IF qs = << >> THEN 0 ELSE Head(qs).balance_usd + SumUsd(Tail(qs))

\* A fiat total accumulated from the usd values.
SumNgnOfUsd(qs) == SumUsd(qs)

RECURSIVE SumNgn(_)
SumNgn(qs) == IF qs = << >> THEN 0 ELSE Head(qs).balance_ngn + SumNgn(Tail(qs))

\* Lines 387-391.  The quotes' values are whole hundredths, so is their sum, and
\* round(total, 2) leaves it.
PortfolioValueResponse(wallet_balances) ==
  [status |-> "returned",
   total_value_usd |-> SumUsd(wallet_balances),
   total_value_ngn |-> SumNgn(wallet_balances),
   wallets |-> wallet_balances]

\* get_portfolio_value after the gather of every wallet's fetch_wallet_balances.
GetPortfolioValue ==
  /\ request.kind = "portfolio"
  /\ response.status = "pending"
  /\ \A w \in 1..Len(wres) : wres[w].done
  /\ response' = PortfolioValueResponse(Flatten(wres))
  /\ UNCHANGED <<request, procs, pc, loc, calls, client, reachable, cache, wres, documents>>

\* ------------------------------------------------------------ environment

\* cache.connect() (lifespan), before any request is served.
Connect ==
  /\ ~client
  /\ \A p \in P : pc[p] \in {"start", "prices"}
  /\ client' = TRUE
  /\ UNCHANGED <<reachable, request, procs, pc, loc, calls, cache, wres, response, documents>>

\* The server of the backing store goes away, or was never there: connect()
\* builds the client (redis.from_url) without contacting it.  Taken before the
\* request's first step, so that a request is served with or without the server.
StoreFails ==
  /\ client /\ reachable
  /\ \A p \in P : pc[p] \in {"start", "prices"}
  /\ reachable' = FALSE
  /\ UNCHANGED <<request, procs, pc, loc, calls, client, cache, wres, response, documents>>

Next ==
  \/ Connect
  \/ StoreFails
  \/ \E p \in P : GetWalletBalance(p)
  \/ \E p \in P : GetPriceForSymbol(p)
  \/ \E p \in P : GetNgnRate(p)
  \/ \E p \in P : GetTokenBalance(p)
  \/ \E p \in P : GetAllPrices(p)
  \/ \E p \in P : GetPrice(p)
  \/ \E p \in P : GetRate(p)
  \/ \E p \in P : GetWalletResponse(p)
  \/ \E w \in 1..Len(wres) : FetchWalletBalances(w)
  \/ GetPortfolioValue

Spec == Init /\ [][Next]_vars

\* ------------------------------------------------------------ entries that expire

\* The backing store drops an entry when its ttl has run out (set(..., ex=ttl),
\* cache.py line 48: 30 s for the price table, 300 s for the fiat rate).
Expire(key) ==
  /\ key \in DOMAIN cache
  /\ cache' = [k \in DOMAIN cache \ {key} |-> cache[k]]
  /\ UNCHANGED <<request, procs, pc, loc, calls, client, reachable, wres, response, documents>>

\* The requests served while entries expire: the price service's, and the
\* portfolio of two bitcoin wallets.
RequestsTtl ==
  {r \in Requests : \/ r.kind \in {"prices", "rate", "price"}
                    \/ r.kind = "portfolio" /\ r.wallets = <<WalletSeq[2], WalletSeq[4]>>}

InitTtl == Init /\ request \in RequestsTtl

NextTtl ==
  \/ Connect
  \/ \E key \in DOMAIN cache : Expire(key)
  \/ \E p \in P : GetWalletBalance(p)
  \/ \E p \in P : GetPriceForSymbol(p)
  \/ \E p \in P : GetNgnRate(p)
  \/ \E p \in P : GetAllPrices(p)
  \/ \E p \in P : GetPrice(p)
  \/ \E p \in P : GetRate(p)
  \/ \E w \in 1..Len(wres) : FetchWalletBalances(w)
  \/ GetPortfolioValue

SpecTtl == InitTtl /\ [][NextTtl]_vars

\* ------------------------------------------------------------ token decoding

\* The longest on-chain integer decoded, in decimal digits (a uint256 has up to 78).
MaxDigits == 30

\* The integers a balanceOf call may return: 0, and for every length 10...0,
\* 10...01, 10...05 and 9...9.
OnChainAmounts ==
  {<<0>>}
    \cup {[i \in 1..len |-> IF i = 1 THEN 1 ELSE IF i = len THEN last ELSE 0] :
            len \in 1..MaxDigits, last \in {0, 1, 5}}
    \cup {[i \in 1..len |-> 9] : len \in 1..MaxDigits}

\* _get_token_balance's decoding of an eth_call result, lines 160-165, for every
\* configured token of every network.
InitDecode ==
  /\ request \in {[kind |-> "decode", network |-> network, asset |-> token, result |-> n] :
                    network \in TokenNetworks, token \in ConfiguredTokens, n \in OnChainAmounts}
  /\ procs = << >>
  /\ pc = << >>
  /\ loc = << >>
  /\ calls = NoCalls
  /\ client = FALSE
  /\ reachable = TRUE
  /\ cache = EmptyDict
  /\ wres = << >>
  /\ response = NoResponse
  /\ documents = {}

Decode ==
  /\ request.kind = "decode"
  /\ response.status = "pending"
  /\ response' = [status |-> "returned",
                  balance |-> Quotient(request.result,
                                       TOKEN_CONFIG(request.network)[request.asset].decimals)]
  /\ UNCHANGED <<request, procs, pc, loc, calls, client, reachable, cache, wres, documents>>

NextDecode == Decode

SpecDecode == InitDecode /\ [][NextDecode]_vars

\* ------------------------------------------------------------ a balance through the cache

\* The cache key of a read (lines 127, 189, 238).
KeyOf(wallet, asset) ==
  IF asset # None THEN <<"balance", wallet.network, asset, wallet.address>>
  ELSE IF wallet.network = "bitcoin" THEN <<"balance", "bitcoin", wallet.address>>
  ELSE <<"balance", wallet.network, wallet.address>>

\* The decimal digits a double keeps whatever they are (float's DBL_DIG): a
\* decimal of that many significant digits comes back from float() and repr()
\* as it went in.
DBL_DIG == 15

Dec(digits, exp) == [digits |-> digits, exp |-> exp]

\* repr(float(d)) for decimals of more digits than DBL_DIG: the shortest
\* decimal that names the double nearest to d, as CPython computes it.
LongReprs ==
  {[of |-> Dec(<<1, 2, 3, 4, 5, 6, 7, 8, 9, 0, 1, 2, 3, 4, 5, 6, 7, 8, 9>>, -18), repr |-> Dec(<<1, 2, 3, 4, 5, 6, 7, 8, 9, 0, 1, 2, 3, 4, 5, 6, 7>>, -16)],
   [of |-> Dec(<<1, 0, 0, 0, 0, 0, 0, 0, 0, 0, 0, 0, 0, 0, 0, 0, 0, 0, 1>>, -18), repr |-> Dec(<<1>>, 0)],
   [of |-> Dec(<<9, 9, 9, 9, 9, 9, 9, 9, 9, 9, 9, 9, 9, 9, 9, 9, 9, 9, 9>>, -18), repr |-> Dec(<<1>>, 1)],
   [of |-> Dec(<<1, 2, 3, 4, 5, 6, 7, 8, 9, 0, 1, 2, 3, 4, 5, 6, 7>>, -6), repr |-> Dec(<<1, 2, 3, 4, 5, 6, 7, 8, 9, 0, 1, 2, 3, 4, 5, 6, 8>>, -6)],
   [of |-> Dec(<<1, 2, 3, 4, 5, 6, 7, 8, 9, 0, 1, 2, 3, 4, 5, 6>>, -18), repr |-> Dec(<<1, 2, 3, 4, 5, 6, 7, 8, 9, 0, 1, 2, 3, 4, 5, 6>>, -18)],
   [of |-> Dec(<<2, 0, 9, 9, 9, 9, 9, 9, 9, 9, 9, 9, 9, 9, 9, 9>>, -8), repr |-> Dec(<<2, 0, 9, 9, 9, 9, 9, 9, 9, 9, 9, 9, 9, 9, 9, 9>>, -8)],
   [of |-> Dec(<<1, 0, 0, 0, 0, 0, 0, 0, 0, 0, 0, 0, 0, 0, 0, 0, 0, 1>>, -6), repr |-> Dec(<<1>>, 11)]}

\* cache.set(cache_key, float(balance)), lines 167, 220, 260: the decimal that
\* json.dumps writes for the double nearest to the balance.
FloatOf(balance) ==
  IF Len(balance.digits) <= DBL_DIG THEN balance
  ELSE (CHOOSE row \in LongReprs : row.of = balance).repr

\* Decimal(str(cached)), lines 130, 192, 241: str of a float below 1e16 shows a
\* fraction ("1000.0"), and the Decimal keeps its zero.
DecimalOfStr(f) ==
  IF f.exp >= 0 THEN Dec(f.digits \o Zeros(f.exp + 1), -1) ELSE f

\* The decimals of the unit a reader divides by: lines 165, 218 and 258.
DecimalsOf(network, asset) ==
  IF asset # None THEN TOKEN_CONFIG(network)[Lower(asset)].decimals
  ELSE IF network = "bitcoin" THEN SATOSHI_DECIMALS
  ELSE WEI_DECIMALS

\* The on-chain amounts read and read again: for every length up to DBL_DIG
\* the integers 10...0, 10...01 and 9...9, and longer ones.
ShortAmounts ==
  {<<0>>}
    \cup {[i \in 1..len |-> IF i = 1 THEN 1 ELSE IF i = len THEN last ELSE 0] :
            len \in 1..DBL_DIG, last \in {0, 1}}
    \cup {[i \in 1..len |-> 9] : len \in 1..DBL_DIG}

LongReads ==
  {[kind |-> "roundtrip", address |-> "0xa1", network |-> "ethereum", asset |-> None, result |-> <<1, 2, 3, 4, 5, 6, 7, 8, 9, 0, 1, 2, 3, 4, 5, 6, 7, 8, 9>>],
   [kind |-> "roundtrip", address |-> "0xa1", network |-> "ethereum", asset |-> None, result |-> <<1, 0, 0, 0, 0, 0, 0, 0, 0, 0, 0, 0, 0, 0, 0, 0, 0, 0, 1>>],
   [kind |-> "roundtrip", address |-> "0xa1", network |-> "ethereum", asset |-> None, result |-> <<9, 9, 9, 9, 9, 9, 9, 9, 9, 9, 9, 9, 9, 9, 9, 9, 9, 9, 9>>],
   [kind |-> "roundtrip", address |-> "0xa1", network |-> "ethereum", asset |-> "USDT", result |-> <<1, 2, 3, 4, 5, 6, 7, 8, 9, 0, 1, 2, 3, 4, 5, 6, 7>>],
   [kind |-> "roundtrip", address |-> "0xa1", network |-> "ethereum", asset |-> None, result |-> <<1, 2, 3, 4, 5, 6, 7, 8, 9, 0, 1, 2, 3, 4, 5, 6>>],
   [kind |-> "roundtrip", address |-> "0xa1", network |-> "bitcoin", asset |-> None, result |-> <<2, 0, 9, 9, 9, 9, 9, 9, 9, 9, 9, 9, 9, 9, 9, 9>>],
   [kind |-> "roundtrip", address |-> "0xa1", network |-> "ethereum", asset |-> "USDT", result |-> <<1, 0, 0, 0, 0, 0, 0, 0, 0, 0, 0, 0, 0, 0, 0, 0, 0, 1>>]}

InitRoundTrip ==
  /\ request \in LongReads \cup
                  {[kind |-> "roundtrip", address |-> "0xa1", network |-> r[1], asset |-> r[2], result |-> n] :
                     r \in {<<"ethereum", None>>, <<"ethereum", "USDT">>, <<"bitcoin", None>>},
                     n \in ShortAmounts}
  /\ procs = << >>
  /\ pc = << >>
  /\ loc = << >>
  /\ calls = NoCalls
  /\ client = TRUE
  /\ reachable = TRUE
  /\ cache = EmptyDict
  /\ wres = << >>
  /\ response = NoResponse
  /\ documents = {}

\* A read that asks the endpoint: the balance it returns, and the float it
\* leaves in the cache.
FreshRead ==
  /\ request.kind = "roundtrip"
  /\ response.status = "pending"
  /\ LET balance == Quotient(request.result, DecimalsOf(request.network, request.asset))
     IN  /\ response' = [status |-> "fresh", balance |-> balance]
         /\ cache' = CacheSet(cache, KeyOf(request, request.asset), FloatOf(balance))
  /\ UNCHANGED <<request, procs, pc, loc, calls, client, reachable, wres, documents>>

\* The next read of the same key, served from the entry.
CachedRead ==
  /\ request.kind = "roundtrip"
  /\ response.status = "fresh"
  /\ CacheHit(cache, KeyOf(request, request.asset))
  /\ response' = [status |-> "cached", balance |-> response.balance,
                  served |-> DecimalOfStr(cache[KeyOf(request, request.asset)])]
  /\ UNCHANGED <<request, procs, pc, loc, calls, client, reachable, cache, wres, documents>>

NextRoundTrip == FreshRead \/ CachedRead

SpecRoundTrip == InitRoundTrip /\ [][NextRoundTrip]_vars

\* ------------------------------------------------------------ repeated reads

\* The wallets read twice: an ethereum wallet, a bitcoin wallet, and a bsc wallet
\* with the ethereum wallet's address (an EVM address is the same on every EVM
\* network).
ReadWallets == {WalletSeq[1], WalletSeq[2], Wallet("w6", "bsc", "0xa1")}

\* A read: a wallet and the asset asked of it, None for the native one.
ReadsOf == {<<w, a>> : w \in ReadWallets, a \in {None, "USDT"}}

\* The reader called for a read: _get_btc_balance or _get_evm_balance for the
\* native asset, _get_token_balance for a token.
Reader(store, wallet, asset, resp) ==
  IF asset # None THEN TokenBalance(store, wallet, asset, resp)
  ELSE IF wallet.network = "bitcoin" THEN BtcBalance(store, wallet, resp)
  ELSE EvmBalance(store, wallet, resp)

\* The upstream source of a read.
SourceOf(wallet) == IF wallet.network = "bitcoin" THEN "explorer" ELSE "chain"

\* Two reads, of one wallet and asset or of two, one after the other or
\* interleaved with the entries' expiry.
InitReads ==
  /\ request \in {Request("reads", <<r1[1], r2[1]>>, <<r1[2], r2[2]>>) : r1, r2 \in ReadsOf}
  /\ procs = [i \in 1..2 |-> Proc("read", request.wallets[i], request.asset[i])]
  /\ pc = [p \in 1..2 |-> "start"]
  /\ loc = [p \in 1..2 |-> NoLocals]
  /\ calls = NoCalls
  /\ client = FALSE
  /\ reachable = TRUE
  /\ cache = EmptyDict
  /\ wres = << >>
  /\ response = NoResponse
  /\ documents = {}

\* One call of a balance reader.
Read(p) ==
  /\ procs[p].op = "read"
  /\ pc[p] = "start"
  /\ \E resp \in ReadResponses(procs[p].wallet, procs[p].asset) :
       LET r == Reader(cache, procs[p].wallet, procs[p].asset, resp)
       IN  IF r.exc # NoException THEN Raise(p, r)
           ELSE /\ pc' = [pc EXCEPT ![p] = "returned"]
                /\ loc' = [loc EXCEPT ![p].balance = r.value]
                /\ calls' = Count(r.calls)
                /\ cache' = r.store
  /\ UNCHANGED <<request, procs, client, reachable, wres, response, documents>>

NextReads ==
  \/ Connect
  \/ StoreFails
  \/ \E key \in DOMAIN cache : Expire(key)
  \/ \E p \in P : Read(p)

SpecReads == InitReads /\ [][NextReads]_vars

\* ------------------------------------------------------------ bitcoin reads

\* Amounts of an address, in satoshi.
SatoshiAmounts == {0, 1500, 100000000, 223400000}

\* A chain_stats or mempool_stats object: either sum may be absent.
StatsObjects ==
  UNION {[fields -> SatoshiAmounts] : fields \in SUBSET {"funded_txo_sum", "spent_txo_sum"}}

\* The bodies of the address lookup: either object may be absent.  An address
\* has spent no more than it was funded with.
AddressBodies ==
  {body \in UNION {[objects -> StatsObjects] : objects \in SUBSET {"chain_stats", "mempool_stats"}} :
     LET chain == Get(body, "chain_stats", EmptyDict)
         mempool == Get(body, "mempool_stats", EmptyDict)
     IN  Get(chain, "funded_txo_sum", 0) + Get(mempool, "funded_txo_sum", 0)
           >= Get(chain, "spent_txo_sum", 0) + Get(mempool, "spent_txo_sum", 0)}

\* _get_btc_balance called once for an address, with the explorer's answer.
InitBtc ==
  /\ request \in {[kind |-> "bitcoin", wallets |-> <<WalletSeq[2]>>, asset |-> None, resp |-> resp] :
                    resp \in {[kind |-> "http_error", body |-> << >>]}
                               \cup {[kind |-> "ok", body |-> b] : b \in AddressBodies}}
  /\ procs = <<Proc("btc", request.wallets[1], None)>>
  /\ pc = <<"start">>
  /\ loc = <<NoLocals>>
  /\ calls = NoCalls
  /\ client = FALSE
  /\ reachable = TRUE
  /\ cache = EmptyDict
  /\ wres = << >>
  /\ response = NoResponse
  /\ documents = {}

GetBtcBalance(p) ==
  /\ procs[p].op = "btc"
  /\ pc[p] = "start"
  /\ LET r == BtcBalance(cache, procs[p].wallet, request.resp)
     IN  IF r.exc # NoException THEN Raise(p, r)
         ELSE /\ pc' = [pc EXCEPT ![p] = "returned"]
              /\ loc' = [loc EXCEPT ![p].balance = r.value]
              /\ calls' = Count(r.calls)
              /\ cache' = r.store
  /\ UNCHANGED <<request, procs, client, reachable, wres, response, documents>>

NextBtc ==
  \/ Connect
  \/ \E p \in P : GetBtcBalance(p)

SpecBtc == InitBtc /\ [][NextBtc]_vars

\* ------------------------------------------------------------ price lookups

\* get_all_prices called by the route and the refresh loop while
\* get_price_for_symbol is called for a symbol, the table's entry expiring
\* between any two of them.
InitLookups ==
  /\ request \in {Request("lookups", << >>, symbol) : symbol \in SymbolStrings}
  /\ procs = [i \in 1..PriceCallers |-> Proc("prices", NoWallet, None)]
               \o <<Proc("price", NoWallet, request.asset)>>
  /\ pc = [p \in 1..Len(procs) |-> IF procs[p].op = "prices" THEN "prices" ELSE "start"]
  /\ loc = [p \in 1..Len(procs) |-> NoLocals]
  /\ calls = NoCalls
  /\ client = FALSE
  /\ reachable = TRUE
  /\ cache = EmptyDict
  /\ wres = << >>
  /\ response = NoResponse
  /\ documents = {}

NextLookups ==
  \/ Connect
  \/ Expire(CACHE_KEY_PRICES)
  \/ \E p \in P : GetAllPrices(p)
  \/ \E p \in P : GetPrice(p)

SpecLookups == InitLookups /\ [][NextLookups]_vars

\* ------------------------------------------------------------ a portfolio to its end

\* GET /wallets/balance alone, for the wallet lists of up to three tasks: no
\* wallet, one wallet of one task or of three, two wallets of one task each.
InitPortfolio == Init /\ request.kind = "portfolio" /\ Len(ProcsOf(request)) <= 3

\* The steps of the request: its balance tasks, the gather of each wallet's
\* tasks, the gather of the wallets.
Progress ==
  \/ \E p \in P : GetWalletBalance(p)
  \/ \E p \in P : GetPriceForSymbol(p)
  \/ \E p \in P : GetNgnRate(p)
  \/ \E w \in 1..Len(wres) : FetchWalletBalances(w)
  \/ GetPortfolioValue

NextPortfolio ==
  \/ Connect
  \/ StoreFails
  \/ Progress

\* Every upstream call and cache operation returns or fails (the HTTP clients
\* have timeouts of 15 s and 10 s), and the event loop runs a coroutine that
\* can run: a step of the request that stays possible is taken.
SpecPortfolio == InitPortfolio /\ [][NextPortfolio]_vars /\ WF_vars(Progress)

\* ------------------------------------------------------------ results without a value

\* The bodies of a 2xx JSON-RPC response that carry no amount: the result
\* member is missing ("empty"), null, the empty string, or "0x"; and a body with
\* an amount.
ValuelessKinds == {"empty", "null", "empty_string", "empty_hex"}

ResultResponses(decimals) ==
  {[kind |-> k, raw |-> [m |-> 0, k |-> 0], body |-> EmptyDict] : k \in ValuelessKinds}
    \cup {[kind |-> "result", raw |-> r, body |-> EmptyDict] : r \in RawAmounts(decimals)}

\* One read of the native asset or of a configured token of an EVM wallet, with
\* the endpoint's answer.
InitResults ==
  /\ request \in UNION {{[kind |-> "result", wallets |-> <<w>>, asset |-> a, resp |-> resp] :
                            resp \in ResultResponses(DecimalsOf(w.network, a))} :
                          w \in {x \in WalletPool : x.network # "bitcoin"},
                          a \in {None, "USDT", "usdc"}}
  /\ procs = <<Proc("result", request.wallets[1], request.asset)>>
  /\ pc = <<"start">>
  /\ loc = <<NoLocals>>
  /\ calls = NoCalls
  /\ client = FALSE
  /\ reachable = TRUE
  /\ cache = EmptyDict
  /\ wres = << >>
  /\ response = NoResponse
  /\ documents = {}

\* _get_evm_balance or _get_token_balance, called once.
ReadResult(p) ==
  /\ procs[p].op = "result"
  /\ pc[p] = "start"
  /\ LET r == Reader(cache, procs[p].wallet, procs[p].asset, request.resp)
     IN  IF r.exc # NoException THEN Raise(p, r)
         ELSE /\ pc' = [pc EXCEPT ![p] = "returned"]
              /\ loc' = [loc EXCEPT ![p].balance = r.value]
              /\ calls' = Count(r.calls)
              /\ cache' = r.store
  /\ UNCHANGED <<request, procs, client, reachable, wres, response, documents>>

NextResults ==
  \/ Connect
  \/ \E p \in P : ReadResult(p)

SpecResults == InitResults /\ [][NextResults]_vars

\* ------------------------------------------------------------ the refresh loop (app/main.py)

\* An except clause that catches the errors of the upstream sources only.
CatchesApiErrors(exc) == exc.type = "ExternalAPIError"

\* "except Exception" (line 27): every exception a refresh raises is one.
\* asyncio.CancelledError is none, and is what Cancel delivers.
Catches(exc) == exc # NoException

\* lifespan up to its yield, then update_rates_loop.
InitRefresh ==
  /\ request = Request("refresh", << >>, None)
  /\ procs = <<Proc("loop", NoWallet, None)>>
  /\ pc = <<"start">>
  /\ loc = <<NoLocals>>
  /\ calls = NoCalls
  /\ client = FALSE
  /\ reachable = TRUE
  /\ cache = EmptyDict
  /\ wres = << >>
  /\ response = NoResponse
  /\ documents = {}

\* lifespan, lines 44-46: the initial price fetch, in no try, and the task.
Startup(p) ==
  /\ procs[p].op = "loop"
  /\ pc[p] = "start"
  /\ client
  /\ \E tresp \in Asked(TickerResponses, TickerAsked),
        qresp \in Asked(QuidaxResponses, TickerAsked /\ RateAsked) :
       LET r == AllPrices(cache, tresp, qresp)
       IN  /\ pc' = [pc EXCEPT ![p] = IF r.exc # NoException THEN "raised" ELSE "prices"]
           /\ loc' = [loc EXCEPT ![p] = [NoLocals EXCEPT !.exc = r.exc]]
           /\ cache' = r.store
  /\ UNCHANGED <<request, procs, calls, client, reachable, wres, response, documents>>

\* update_rates_loop, lines 24-28: one refresh; an exception the clause catches
\* is logged, any other ends the task.
Refresh(p) ==
  /\ procs[p].op = "loop"
  /\ pc[p] = "prices"
  /\ \E tresp \in Asked(TickerResponses, TickerAsked),
        qresp \in Asked(QuidaxResponses, TickerAsked /\ RateAsked) :
       LET r == AllPrices(cache, tresp, qresp)
       IN  /\ pc' = [pc EXCEPT ![p] = IF r.exc = NoException \/ Catches(r.exc)
                                        THEN "sleep" ELSE "raised"]
           /\ loc' = [loc EXCEPT ![p] = [NoLocals EXCEPT !.exc = r.exc]]
           /\ cache' = r.store
  /\ UNCHANGED <<request, procs, calls, client, reachable, wres, response, documents>>

\* Line 30: asyncio.sleep(30) is over.
Sleep(p) ==
  /\ procs[p].op = "loop"
  /\ pc[p] = "sleep"
  /\ pc' = [pc EXCEPT ![p] = "prices"]
  /\ UNCHANGED <<request, procs, loc, calls, client, reachable, cache, wres, response, documents>>

\* lifespan, lines 51-55: task.cancel() at shutdown, wherever the task waits.
Cancel(p) ==
  /\ procs[p].op = "loop"
  /\ pc[p] \in {"prices", "sleep"}
  /\ pc' = [pc EXCEPT ![p] = "cancelled"]
  /\ UNCHANGED <<request, procs, loc, calls, client, reachable, cache, wres, response, documents>>

\* The server of the backing store is away or back while the loop runs.
StoreTurns ==
  /\ client
  /\ reachable' = ~reachable
  /\ UNCHANGED <<request, procs, pc, loc, calls, client, cache, wres, response, documents>>

NextRefresh ==
  \/ Connect
  \/ StoreTurns
  \/ \E key \in DOMAIN cache : Expire(key)
  \/ \E p \in P : Startup(p)
  \/ \E p \in P : Refresh(p)
  \/ \E p \in P : Sleep(p)
  \/ \E p \in P : Cancel(p)

\* A refresh returns or fails (the HTTP clients have timeouts) and a sleep ends.
SpecRefresh ==
  /\ InitRefresh /\ [][NextRefresh]_vars
  /\ WF_vars(\E p \in P : Refresh(p))
  /\ WF_vars(\E p \in P : Sleep(p))

\* ------------------------------------------------------------ the wallet store (app/services/wallet_service.py)

WalletNotFoundError(wallet_id) ==
  [type |-> "WalletNotFoundError", service |-> None, message |-> wallet_id]

\* bson.errors.InvalidId, raised by PydanticObjectId for a string that is no id.
InvalidId == [type |-> "InvalidId", service |-> None, message |-> None]

StoredWallets ==
  {WalletModel("aa1", "ethereum", "0xa1", "k1"), WalletModel("aa2", "bitcoin", "bc1q2", "k2"),
   WalletModel("aa3", "bsc", "0xa3", "k3")}

\* The ids a route is called with: ids of the store in lower and in upper case,
\* a well-formed id of no wallet, and strings that are no ObjectId.
WalletIds == {"aa1", "AA1", "aa2", "aa9", "zz", ""}

WellFormed == {"aa1", "AA1", "aa2", "aa9"}

\* PydanticObjectId(wallet_id): the hexadecimal digits are read in either case,
\* and str() writes them in lower case.
ObjectId(wallet_id) == IF wallet_id = "AA1" THEN "aa1" ELSE wallet_id

\* WalletModel.get(oid): the documents with that id (one, or none).
Found(store, oid) == {d \in store : d.id = oid}

\* A get_wallet whose try catches nothing.
GetWalletUncaught(store, wallet_id) ==
  IF wallet_id \notin WellFormed THEN [exc |-> InvalidId, found |-> {}]
  ELSE IF Found(store, ObjectId(wallet_id)) = {}
    THEN [exc |-> WalletNotFoundError(wallet_id), found |-> {}]
    ELSE [exc |-> NoException, found |-> Found(store, ObjectId(wallet_id))]

\* get_wallet(wallet_id), lines 65-73: whatever the lookup raises, and a lookup
\* that finds nothing, is WalletNotFoundError.
GetWallet(store, wallet_id) ==
  IF wallet_id \notin WellFormed THEN [exc |-> WalletNotFoundError(wallet_id), found |-> {}]
  ELSE IF Found(store, ObjectId(wallet_id)) = {}
    THEN [exc |-> WalletNotFoundError(wallet_id), found |-> {}]
    ELSE [exc |-> NoException, found |-> Found(store, ObjectId(wallet_id))]

WalletOp(op, wallet_id) == [op |-> op, wallet_id |-> wallet_id]

WalletOps ==
  {WalletOp(op, id) : op \in {"get", "delete"}, id \in WalletIds} \cup {WalletOp("list", None)}

\* What a route of the wallet store holds: the exception raised, the documents
\* found, the responses built.
NoWalletLocals == [exc |-> NoException, found |-> {}, responses |-> {}]

\* Two routes called at once on a store of up to three wallets.
InitWallets ==
  /\ request \in {[kind |-> "wallets", ops |-> <<o1, o2>>] : o1, o2 \in WalletOps}
  /\ procs = request.ops
  /\ pc = [p \in 1..Len(procs) |-> "start"]
  /\ loc = [p \in 1..Len(procs) |-> NoWalletLocals]
  /\ calls = NoCalls
  /\ client = FALSE
  /\ reachable = TRUE
  /\ cache = EmptyDict
  /\ wres = << >>
  /\ response = NoResponse
  /\ documents \in SUBSET StoredWallets

\* GET /wallets/{wallet_id}: get_wallet, then to_response.
GetWalletRoute(p) ==
  /\ procs[p].op = "get"
  /\ pc[p] = "start"
  /\ LET r == GetWallet(documents, procs[p].wallet_id)
     IN  IF r.exc # NoException
           THEN /\ pc' = [pc EXCEPT ![p] = "raised"]
                /\ loc' = [loc EXCEPT ![p].exc = r.exc]
           ELSE /\ pc' = [pc EXCEPT ![p] = "returned"]
                /\ loc' = [loc EXCEPT ![p].found = r.found,
                                      ![p].responses = {ToResponse(w) : w \in r.found}]
  /\ UNCHANGED <<request, procs, calls, client, reachable, cache, wres, response, documents>>

\* delete_wallet, line 97: the wallet is looked up.
DeleteWalletFind(p) ==
  /\ procs[p].op = "delete"
  /\ pc[p] = "start"
  /\ LET r == GetWallet(documents, procs[p].wallet_id)
     IN  IF r.exc # NoException
           THEN /\ pc' = [pc EXCEPT ![p] = "raised"]
                /\ loc' = [loc EXCEPT ![p].exc = r.exc]
           ELSE /\ pc' = [pc EXCEPT ![p] = "found"]
                /\ loc' = [loc EXCEPT ![p].found = r.found]
  /\ UNCHANGED <<request, procs, calls, client, reachable, cache, wres, response, documents>>

\* delete_wallet, lines 98-100: wallet.delete() removes the document of that
\* id, if it is still there.
DeleteWalletRemove(p) ==
  /\ procs[p].op = "delete"
  /\ pc[p] = "found"
  /\ documents' = {d \in documents : \A w \in loc[p].found : d.id # w.id}
  /\ pc' = [pc EXCEPT ![p] = "returned"]
  /\ UNCHANGED <<request, procs, loc, calls, client, reachable, cache, wres, response>>

\* GET /wallets: get_all_wallets, then to_response of each.
ListWallets(p) ==
  /\ procs[p].op = "list"
  /\ pc[p] = "start"
  /\ pc' = [pc EXCEPT ![p] = "returned"]
  /\ loc' = [loc EXCEPT ![p].found = documents,
                        ![p].responses = {ToResponse(w) : w \in documents}]
  /\ UNCHANGED <<request, procs, calls, client, reachable, cache, wres, response, documents>>

NextWallets ==
  \/ \E p \in P : GetWalletRoute(p)
  \/ \E p \in P : DeleteWalletFind(p)
  \/ \E p \in P : DeleteWalletRemove(p)
  \/ \E p \in P : ListWallets(p)

SpecWallets == InitWallets /\ [][NextWallets]_vars

\* ------------------------------------------------------------ properties

\* The quotes of the portfolio response.
Listed == {response.wallets[i] : i \in 1..Len(response.wallets)}

PortfolioReturned == request.kind = "portfolio" /\ response.status = "returned"

\* The coroutines of the balance tasks of wallet w of the request.
TasksFor(w) == {p \in P : procs[p].wallet = request.wallets[w]}

\* The totals of a quote list, added up from its first n entries.
RECURSIVE TotalUsd(_, _)
TotalUsd(qs, n) == IF n = 0 THEN 0 ELSE qs[n].balance_usd + TotalUsd(qs, n - 1)

RECURSIVE TotalNgn(_, _)
TotalNgn(qs, n) == IF n = 0 THEN 0 ELSE qs[n].balance_ngn + TotalNgn(qs, n - 1)

\* C1: get_portfolio_value joins collect-all.  Whatever tasks fail, when the
\* response is returned every task has run to its end (none was cancelled), and
\* every task that returned a quote with a positive balance or a native asset
\* has that quote in the response, whether a sibling task of its wallet or a
\* task of another wallet raised or not.
C1_CollectAll ==
  PortfolioReturned =>
    /\ \A p \in P : Finished(p)
    /\ \A p \in P :
         (pc[p] = "returned"
            /\ (loc[p].quote.balance.c > 0 \/ loc[p].quote.asset \in NativeSymbols))
           => loc[p].quote \in Listed

\* C1 witness: the native task of the first wallet raised; its USDT sibling and
\* the task of the second wallet returned and their quotes are in the response.
C1_Witness ==
  /\ PortfolioReturned
  /\ Len(request.wallets) = 2
  /\ Len(procs) = 4
  /\ pc[1] = "raised"
  /\ pc[2] = "returned" /\ loc[2].quote \in Listed
  /\ pc[4] = "returned" /\ loc[4].quote \in Listed

\* One wallet's native read raised a transport error, the other wallet's tasks
\* all returned.
PartialFailure(failing, successful) ==
  /\ PortfolioReturned
  /\ Len(request.wallets) = 2
  /\ failing \in 1..2 /\ successful \in 1..2 /\ failing # successful
  /\ \E p \in TasksFor(failing) :
       /\ procs[p].asset = None
       /\ pc[p] = "raised"
       /\ loc[p].exc.type = "ExternalAPIError"
       /\ loc[p].exc.message = "HTTP error"
  /\ \A p \in TasksFor(successful) : pc[p] = "returned"

\* C2 as stated: with one wallet whose native read throws a transport error and
\* another that succeeds fully, the response holds only the successful wallet's
\* quotes.
C2_OnlySuccessfulWallet ==
  \A failing \in 1..2, successful \in 1..2 :
    PartialFailure(failing, successful) =>
      \A q \in Listed : q.id = request.wallets[successful].id

\* C2, amended: a failing balance task never makes fetch_wallet_balances or
\* get_portfolio_value raise.  A wallet's results, and the response, hold only
\* quotes of tasks that returned (a failing wallet's token tasks among them);
\* the totals add up those quotes; with every task failing the list is empty and
\* the totals are zero.
C2_FailuresOmitted ==
  request.kind = "portfolio" =>
    /\ \A w \in 1..Len(wres) :
         /\ ~wres[w].raised
         /\ \A i \in 1..Len(wres[w].results) :
              \E p \in TasksFor(w) : pc[p] = "returned" /\ loc[p].quote = wres[w].results[i]
    /\ response.status = "returned" =>
         /\ \A q \in Listed : \E p \in P : pc[p] = "returned" /\ loc[p].quote = q
         /\ (\A p \in P : pc[p] = "raised") =>
              /\ response.wallets = << >>
              /\ response.total_value_usd = 0
              /\ response.total_value_ngn = 0

\* C2 witness: the ethereum wallet's native read raised a transport error, the
\* bitcoin wallet succeeded, and the response holds the bitcoin quote and the
\* ethereum wallet's USDT quote.
C2_Witness ==
  /\ PartialFailure(1, 2)
  /\ \E q \in Listed : q.id = request.wallets[1].id /\ q.asset = "USDT"
  /\ \E q \in Listed : q.id = request.wallets[2].id
  /\ response.total_value_usd > 0

\* C3: every quote of the response has a positive balance or a native asset; a
\* token quote read as 0 is not in the response; a native quote read as 0 is.
C3_ZeroBalanceFilter ==
  PortfolioReturned =>
    /\ \A q \in Listed : q.balance.c > 0 \/ q.asset \in {"ETH", "BTC", "BNB", "MATIC"}
    /\ \A p \in P :
         (pc[p] = "returned" /\ loc[p].quote.balance.c = 0) =>
           IF loc[p].quote.asset \in {"USDT", "USDC"}
             THEN loc[p].quote \notin Listed
             ELSE loc[p].quote \in Listed

\* C3 witness: a native quote and a token quote of one wallet, both read as 0;
\* the native one is in the response, the token one is not.
C3_Witness ==
  /\ PortfolioReturned
  /\ \E p \in P, t \in P :
       /\ procs[p].wallet = procs[t].wallet
       /\ pc[p] = "returned" /\ pc[t] = "returned"
       /\ loc[p].quote.asset \in NativeSymbols /\ loc[p].quote.balance.c = 0
       /\ loc[t].quote.asset = "USDT" /\ loc[t].quote.balance.c = 0
       /\ loc[p].quote \in Listed
       /\ loc[t].quote \notin Listed

\* C4: the totals of the response are the sums of the usd values and of the
\* fiat values of exactly the quotes in its list.
C4_TotalsAreSums ==
  PortfolioReturned =>
    /\ response.total_value_usd = TotalUsd(response.wallets, Len(response.wallets))
    /\ response.total_value_ngn = TotalNgn(response.wallets, Len(response.wallets))

\* C4 witness: two quotes with a value in the response, a failed task and a
\* filtered-out quote beside them.
C4_Witness ==
  /\ PortfolioReturned
  /\ Len(response.wallets) = 2
  /\ response.wallets[1].balance_usd > 0
  /\ response.wallets[2].balance_usd > 0
  /\ response.total_value_ngn > response.total_value_usd
  /\ \E p \in P : pc[p] = "raised"
  /\ \E p \in P : pc[p] = "returned" /\ loc[p].quote \notin Listed

\* C5: a portfolio request runs, for every wallet, one task for the native
\* asset, and one for USDT and one for USDC exactly when the wallet is not on
\* bitcoin.  The response holds at most one quote (BTC) of a bitcoin wallet and
\* at most three of an EVM wallet: its native asset, USDT, USDC, each once.
C5_TaskSet ==
  request.kind = "portfolio" =>
    \A w \in 1..Len(request.wallets) :
      LET wallet == request.wallets[w]
          evm    == wallet.network # "bitcoin"
          assets == {procs[p].asset : p \in TasksFor(w)}
          quoted == {i \in 1..Len(response.wallets) : response.wallets[i].id = wallet.id}
      IN  /\ None \in assets
          /\ "USDT" \in assets <=> evm
          /\ "USDC" \in assets <=> evm
          /\ assets \subseteq {None, "USDT", "USDC"}
          /\ Cardinality(TasksFor(w)) = Cardinality(assets)
          /\ Cardinality(quoted) <= (IF evm THEN 3 ELSE 1)
          /\ \A i \in quoted :
               response.wallets[i].asset \in
                 (IF evm THEN {NATIVE_ASSETS[wallet.network], "USDT", "USDC"} ELSE {"BTC"})
          /\ \A i \in quoted, j \in quoted :
               response.wallets[i].asset = response.wallets[j].asset => i = j

\* C5 witness: an ethereum wallet with its three quotes and a bitcoin wallet with
\* its one in the response.
C5_Witness ==
  /\ PortfolioReturned
  /\ Len(response.wallets) = 4
  /\ {response.wallets[i].asset : i \in 1..4} = {"ETH", "USDT", "USDC", "BTC"}

\* A get_wallet_balance call has ended in a validation error.
Rejected(p) ==
  pc[p] # "start" => pc[p] = "raised" /\ loc[p].exc.type = "BlockAiException"

\* GET /wallets/{id}/balance?asset= with an asset that is given.
BalanceOf(asset) ==
  request.kind = "balance" /\ request.asset = asset /\ asset \notin {None, ""}

\* C6: get_wallet_balance for the native asset of a network that is not the
\* wallet's fails with a validation error, and no call to a chain endpoint, the
\* explorer, the ticker source or the fiat-rate source is ever made.
C6_CrossNetworkNative ==
  \A asset \in AssetStrings :
    (BalanceOf(asset)
       /\ Upper(asset) \in {"ETH", "BNB", "MATIC", "BTC"}
       /\ Upper(asset) # NATIVE_ASSETS[request.wallets[1].network])
      => /\ Rejected(1)
         /\ \A k \in NetworkCalls : calls[k] = 0

\* C6 witness: BTC was asked of an ethereum wallet and the call has raised.
C6_Witness ==
  /\ BalanceOf("btc")
  /\ request.wallets[1].network = "ethereum"
  /\ pc[1] = "raised"
  /\ loc[1].exc = BlockAiException("native currency of another network")

\* C7: get_wallet_balance for a token of a wallet on bitcoin fails with a
\* validation error, and no network call is made before it.
C7_TokenOnBitcoin ==
  \A asset \in AssetStrings :
    (BalanceOf(asset)
       /\ Upper(asset) \notin {"ETH", "BNB", "MATIC", "BTC"}
       /\ request.wallets[1].network = "bitcoin")
      => /\ Rejected(1)
         /\ \A k \in NetworkCalls : calls[k] = 0

\* C7 witness: USDT was asked of a bitcoin wallet and the call has raised.
C7_Witness ==
  /\ BalanceOf("USDT")
  /\ request.wallets[1].network = "bitcoin"
  /\ pc[1] = "raised"
  /\ loc[1].exc = BlockAiException("not supported on Bitcoin network")

\* C8: get_wallet_balance for a token without an entry for the wallet's EVM
\* network fails with a validation error and makes no network call; and
\* _get_token_balance, called for a (network, token) without an entry, fails with
\* a validation error before any network call and any cache access.
C8_UnconfiguredToken ==
  /\ \A asset \in AssetStrings :
       (BalanceOf(asset)
          /\ Upper(asset) \notin {"ETH", "BNB", "MATIC", "BTC", "USDT", "USDC"}
          /\ request.wallets[1].network # "bitcoin")
         => /\ Rejected(1)
            /\ \A k \in NetworkCalls : calls[k] = 0
  /\ (request.kind = "token"
         /\ (request.wallets[1].network = "bitcoin"
                \/ request.asset \notin {"usdt", "USDT", "usdc", "USDC"}))
       => /\ Rejected(1)
          /\ \A k \in CallKinds : calls[k] = 0

\* C8 witness: _get_token_balance has rejected dai on an EVM network with the
\* cache connected.
C8_Witness ==
  /\ request.kind = "token"
  /\ request.asset = "dai"
  /\ request.wallets[1].network = "bsc"
  /\ client
  /\ pc[1] = "raised"
  /\ loc[1].exc = BlockAiException("not configured")

\* C9 as stated: get_all_prices always succeeds with a complete six-entry
\* table; no failure of the ticker fetch or of the fiat-rate fetch reaches its
\* caller.
C9_PricesAlwaysSucceed ==
  \A p \in P :
    procs[p].op = "prices" =>
      /\ pc[p] # "raised"
      /\ pc[p] = "returned" => DOMAIN loc[p].prices = PriceFields

\* C9 witness: a get_all_prices call has raised what parsing the ticker body
\* raised.
C9_Witness ==
  \E p \in P :
    /\ procs[p].op = "prices"
    /\ pc[p] = "raised"
    /\ loc[p].exc = KeyError
    /\ calls["ticker"] >= 1

\* The ticker rows a table was built from: a snapshot, or none (the fetch failed).
Snapshots == TickerBodies \cup {EmptyDict}

\* C10: in a table get_all_prices built, each ticker-backed asset whose pair the
\* snapshot lacks has price 0 and change 0, each whose pair it has carries the
\* ticker's last price and percent change, and usdt's usd price is 1.0.
C10_TableFromSnapshot ==
  \A p \in P :
    (procs[p].op = "prices" /\ pc[p] = "returned") =>
      LET table == loc[p].prices
      IN  /\ table["usdt"].price_usd = 100
          /\ \E snapshot \in Snapshots :
               \A f \in {"btc", "eth", "bnb", "matic", "usdc"} :
                 IF PairOf(f) \in DOMAIN snapshot
                   THEN /\ table[f].price_usd = snapshot[PairOf(f)].price
                        /\ table[f].change_24h = snapshot[PairOf(f)].change_24h
                   ELSE /\ table[f].price_usd = 0
                        /\ table[f].change_24h = 0

\* C10 witness: a table built from a snapshot that has the eth pair and lacks
\* the matic pair.
C10_Witness ==
  \E p \in P :
    /\ procs[p].op = "prices"
    /\ pc[p] = "returned"
    /\ calls["ticker"] >= 1
    /\ loc[p].prices["eth"].price_usd = 200
    /\ loc[p].prices["eth"].change_24h = -1
    /\ loc[p].prices["matic"].price_usd = 0
    /\ loc[p].prices["usdt"].price_usd = 100

\* C11 as stated: get_ngn_rate never propagates an error; on a miss, whatever
\* way the fiat-rate source fails, it returns the fallback 1500.0.  (With the
\* cache connected, a call to the source that left no rate in the cache failed.)
C11_RateNeverPropagates ==
  \A p \in P :
    procs[p].op = "rate" =>
      /\ pc[p] # "raised"
      /\ (pc[p] = "returned" /\ client /\ CACHE_KEY_NGN_RATE \notin DOMAIN cache)
           => loc[p].ngn_rate = 1500

\* C11 witness: a get_ngn_rate call has raised the TypeError of a null in the
\* source's body.
C11_Witness ==
  \E p \in P :
    /\ procs[p].op = "rate"
    /\ pc[p] = "raised"
    /\ loc[p].exc = TypeError
    /\ calls["fiat"] >= 1

\* C12 as stated: get_price_for_symbol returns the table's usd price for the six
\* assets in any letter case, and for every other symbol it returns 0.0 and does
\* not raise.  (What get_all_prices itself raises, C9 and C11, is left aside:
\* the table is then none.)
C12_PriceForEverySymbol ==
  \A p \in P :
    procs[p].op = "price" =>
      /\ pc[p] = "raised" => loc[p].exc \in {KeyError, TypeError}
      /\ pc[p] = "returned" =>
           LET field == Lower(procs[p].asset)
           IN  IF field \in {"btc", "eth", "bnb", "matic", "usdc", "usdt"}
                 THEN /\ client => loc[p].price_usd = cache[CACHE_KEY_PRICES][field].price_usd
                      /\ field = "usdt" => loc[p].price_usd = 100
                 ELSE loc[p].price_usd = 0

\* C12 witness: asked for the symbol "MODEL_DUMP", get_price_for_symbol has raised an
\* AttributeError after the table was there.
C12_Witness ==
  \E p \in P :
    /\ procs[p].op = "price"
    /\ procs[p].asset = "MODEL_DUMP"
    /\ pc[p] = "raised"
    /\ loc[p].exc = AttributeError
    /\ client
    /\ CACHE_KEY_PRICES \in DOMAIN cache

\* The fiat rates a quote or a table can be valued at: a rate of the source, or
\* the fallback.
Rates == FiatRates \cup {FALLBACK_NGN_RATE}

\* The quotes get_wallet_balance has returned.
Quotes == {loc[p].quote : p \in {q \in P : procs[q].op = "balance" /\ pc[q] = "returned"}}

\* The tables get_all_prices has returned.
Tables == {loc[p].prices : p \in {q \in P : procs[q].op = "prices" /\ pc[q] = "returned"}}

\* Every entry of a returned table has price_ngn = price_usd x rate, for one
\* rate of the table.
TablesAtOneRate ==
  \A t \in Tables :
    \E rate \in Rates : \A f \in DOMAIN t : t[f].price_ngn = t[f].price_usd * rate

\* C13 as stated: the fiat value is the usd value times the fiat rate, for every
\* entry of a returned price table and for every quote get_wallet_balance
\* returns.
C13_FiatIsUsdTimesRate ==
  /\ TablesAtOneRate
  /\ \A q \in Quotes : \E rate \in Rates : q.balance_ngn = q.balance_usd * rate

\* C13 amended: the entries of a returned table have price_ngn = price_usd x
\* rate for one rate; a returned quote has balance_usd = balance x price rounded
\* to two decimals and balance_ngn = balance x price x rate rounded to two
\* decimals, the rate being the cached one when the cache holds one: both are
\* rounded from the unrounded values, so balance_ngn is balance_usd x rate only
\* up to the rounding.
C13_RoundedFromUnrounded ==
  [][/\ TablesAtOneRate'
     /\ \A p \in P :
          (procs[p].op = "balance" /\ pc[p] = "rate" /\ pc'[p] = "returned") =>
            LET balance == loc[p].balance
                price_usd == loc[p].price_usd
                quote == loc'[p].quote
            IN  \E rate \in Rates :
                  /\ ~RateAsked => rate = cache[CACHE_KEY_NGN_RATE]
                  /\ quote.balance = balance
                  /\ quote.balance_usd = RoundHalfEven(balance.c * price_usd, Pow10(-balance.e))
                  /\ quote.balance_ngn =
                       RoundHalfEven(balance.c * price_usd * rate, Pow10(-balance.e))]_vars

\* C13 witness: a returned quote of a positive value whose fiat value is not
\* its usd value times any rate.
C13_Witness ==
  \E q \in Quotes :
    /\ q.balance_usd > 0
    /\ \A rate \in Rates : q.balance_ngn # q.balance_usd * rate

C15_CacheNeverAnError ==
  \A p \in P : (~client \/ ~reachable) => ~(pc[p] = "raised" /\ loc[p].exc = ConnectionError)

\* C15 witness: the client is set, its server is away, and get_all_prices has
\* raised the connection error of its first cache.get.
C15_Witness ==
  /\ client /\ ~reachable
  /\ \E p \in P : procs[p].op = "prices" /\ pc[p] = "raised" /\ loc[p].exc = ConnectionError

\* The decoded balance is n / 10^decimals: it is 0 for n = 0, and otherwise its
\* digits, followed by as many zeros as its exponent is above -decimals, are
\* the digits of n.
DecodedExactly ==
  LET decimals == TOKEN_CONFIG(request.network)[request.asset].decimals
      balance == response.balance
  IN  IF request.result = <<0>> THEN balance.digits = <<0>>
      ELSE /\ balance.exp + decimals >= 0
           /\ balance.digits \o Zeros(balance.exp + decimals) = request.result

\* C16: token balance decoding is exact.  For every configured (network,
\* token) and every non-negative integer n the contract call returns, the
\* decoded balance is exactly n / 10^decimals.
C16_DecodingExact ==
  (request.kind = "decode" /\ response.status = "returned") => DecodedExactly

\* C16 witness: an integer of more digits than the precision, the last of them
\* not zero, has been decoded on a network whose token has 18 decimals, and the
\* balance is not n / 10^18.
C16_Witness ==
  /\ request.kind = "decode" /\ response.status = "returned"
  /\ request.network = "bsc"
  /\ Len(request.result) > PREC
  /\ request.result[Len(request.result)] # 0
  /\ ~DecodedExactly

\* An exchange with a chain endpoint or the explorer that fails.
Failure(kind) == [kind |-> kind, raw |-> [m |-> 0, k |-> 0], body |-> EmptyDict]

\* What a reader does with a failed exchange it has made: it raises
\* ExternalAPIError, returns no balance and writes no entry.
Surfaced(r, callee) ==
  r.calls[callee] = 1 =>
    /\ r.exc.type = "ExternalAPIError"
    /\ r.value = EmptyDict
    /\ r.store = cache

\* C17: every balance reader surfaces a transport failure or non-2xx response
\* as ExternalAPIError, the EVM readers surface a JSON-RPC error object as
\* ExternalAPIError too, and no balance is returned: for the wallet of every
\* coroutine, whatever the store holds, and for the coroutines that have raised
\* the error.
C17_ReadersSurfaceFailures ==
  \A p \in P :
    procs[p].op \in {"balance", "token"} =>
      LET wallet == procs[p].wallet
      IN  /\ wallet.network = "bitcoin" =>
                Surfaced(BtcBalance(cache, wallet, Failure("http_error")), "explorer")
          /\ wallet.network # "bitcoin" =>
                \A kind \in {"http_error", "rpc_error"} :
                  /\ Surfaced(EvmBalance(cache, wallet, Failure(kind)), "chain")
                  /\ \A token \in DOMAIN TOKEN_CONFIG(wallet.network) :
                       Surfaced(TokenBalance(cache, wallet, token, Failure(kind)), "chain")
          /\ (pc[p] = "raised" /\ loc[p].exc.type = "ExternalAPIError")
                => loc[p].balance = Zero /\ loc[p].quote = EmptyDict

\* C17 witness: _get_token_balance has made its eth_call, got an error object
\* and raised ExternalAPIError.
C17_Witness ==
  /\ request.kind = "token"
  /\ calls["chain"] = 1
  /\ \E p \in P :
       /\ pc[p] = "raised"
       /\ loc[p].exc = ExternalAPIError("RPC", "error")
       /\ loc[p].balance = Zero

\* What the validation and the dispatched reader of get_wallet_balance can do
\* for coroutine p in the current state, one outcome per answer of the endpoint.
ReadOutcomes(p) ==
  {ReadBalance(cache, procs[p].wallet, procs[p].asset, resp) :
     resp \in ReadResponses(procs[p].wallet, procs[p].asset)}

\* C18: get_wallet_balance propagates the errors of its validation and of the
\* dispatched reader unmodified.  Its step through validation and read ends
\* raised exactly when validation or reader raised, with that very exception,
\* and goes on to the price only with a balance the reader returned; a call
\* that has raised has no quote.
C18_ErrorsPropagateUnmodified ==
  [][\A p \in P :
       (procs[p].op = "balance" /\ pc[p] = "start" /\ pc'[p] # "start") =>
         /\ pc'[p] \in {"raised", "price"}
         /\ pc'[p] = "raised" =>
              /\ \E o \in ReadOutcomes(p) :
                   o.read.exc # NoException /\ loc'[p].exc = o.read.exc
              /\ loc'[p].quote = EmptyDict
         /\ pc'[p] = "price" =>
              \E o \in ReadOutcomes(p) :
                /\ o.read.exc = NoException
                /\ loc'[p].balance = o.read.value
                /\ loc'[p].symbol = o.symbol
         /\ (\A o \in ReadOutcomes(p) : o.read.exc # NoException) => pc'[p] = "raised"]_vars

\* C18 witness: one single-quote request has raised the validation error of a
\* token on a bitcoin wallet, calling nothing.
C18_Witness ==
  /\ request.kind = "balance"
  /\ \E p \in P :
       /\ procs[p].wallet.network = "bitcoin"
       /\ pc[p] = "raised"
       /\ loc[p].exc = BlockAiException("not supported on Bitcoin network")
       /\ loc[p].quote = EmptyDict
  /\ calls = NoCalls

\* C19 as stated: within one get_wallet_balance invocation, once a call to an
\* upstream source has failed, that source is not called again.
C19_NoCallAfterFailure ==
  [][request.kind = "balance" =>
       \A k \in NetworkCalls : calls[FailedOf(k)] >= 1 => calls'[k] = calls[k]]_vars

\* C19 amended: no service function retries.  Each execution of a service
\* function calls each upstream source at most once; within one
\* get_wallet_balance invocation the chain endpoint, the explorer and the
\* ticker source are not called again once they have failed, and they are
\* called at most once; the fiat-rate source is called at most twice, by
\* get_all_prices and by get_wallet_balance's own get_ngn_rate, the second time
\* whenever the first left no rate in the cache.
C19_NoRetries ==
  [][/\ \A k \in NetworkCalls : calls'[k] <= calls[k] + 1
     /\ request.kind = "balance" =>
          /\ \A k \in NetworkCalls \ {"fiat"} :
               /\ calls'[k] <= 1
               /\ calls[FailedOf(k)] >= 1 => calls'[k] = calls[k]
          /\ calls'["fiat"] <= 2
          /\ (calls["fiat"] = 1 /\ calls'["fiat"] = 2)
               => ~(CacheHit(cache, CACHE_KEY_NGN_RATE) /\ cache[CACHE_KEY_NGN_RATE] # 0)]_vars

\* C19 witness: with the cache connected, one get_wallet_balance has returned
\* its quote after the fiat-rate source failed twice: once inside
\* get_all_prices and once more for the quote's own rate.
C19_Witness ==
  /\ request.kind = "balance"
  /\ client /\ reachable
  /\ calls["fiat"] = 2
  /\ calls[FailedOf("fiat")] = 2
  /\ \E p \in P : pc[p] = "returned" /\ loc[p].quote # EmptyDict

\* The usd prices a table can hold: 0 for a missing pair, usdt's 1.0, and the
\* prices of the ticker source.
Prices ==
  {0, USDT_PRICE} \cup {b[pair].price : <<b, pair>> \in {<<body, s>> \in TickerBodies \X REQUIRED_SYMBOLS : s \in DOMAIN body}}

\* The quote q is the value of its balance at the unit price and the rate.
ValuedAt(q, price_usd, rate) ==
  /\ q.balance_usd = RoundHalfEven(q.balance.c * price_usd, Pow10(-q.balance.e))
  /\ q.balance_ngn = RoundHalfEven(q.balance.c * price_usd * rate, Pow10(-q.balance.e))

\* C20: a portfolio is a self-consistent snapshot.  All quotes of one returned
\* portfolio are valued with one fiat rate and, per asset symbol, one usd
\* price, whatever the interleaving of its tasks with expiring entries and
\* failing sources.
C20_SelfConsistentSnapshot ==
  PortfolioReturned =>
    \E rate \in Rates :
      \A symbol \in {q.asset : q \in Listed} :
        \E price_usd \in Prices :
          \A q \in Listed : q.asset = symbol => ValuedAt(q, price_usd, rate)

\* C20 witness: with the cache connected, a returned portfolio lists two
\* wallets' quotes of one asset, one balance and one usd value at different
\* fiat values: they were valued at different rates.
C20_Witness ==
  /\ PortfolioReturned
  /\ client
  /\ \E q1, q2 \in Listed :
       /\ q1.asset = q2.asset
       /\ q1.balance = q2.balance
       /\ q1.balance_usd > 0
       /\ q1.balance_usd = q2.balance_usd
       /\ q1.balance_ngn # q2.balance_ngn

\* C21: balance caching.  A read that finds the entry a successful read of the
\* same network, asset and address has left (the store reachable, the entry
\* not expired) returns the cached balance and calls no upstream source,
\* whatever the balance, zero included.
C21_CachedBalanceServed ==
  [][\A p \in P :
       (procs[p].op = "read" /\ pc[p] = "start" /\ pc'[p] # "start"
          /\ CacheHit(cache, KeyOf(procs[p].wallet, procs[p].asset))) =>
         /\ pc'[p] = "returned"
         /\ loc'[p].balance = DecimalOfCached(cache[KeyOf(procs[p].wallet, procs[p].asset)])
         /\ \A k \in NetworkCalls : calls'[k] = calls[k]]_vars

\* C21 witness: an ethereum wallet's native balance was read twice, the first
\* read left a balance of zero in the cache, and the endpoint was called both
\* times.
C21_Witness ==
  /\ request.kind = "reads"
  /\ client /\ reachable
  /\ procs[1] = procs[2] /\ procs[1].asset = None /\ procs[1].wallet.network = "ethereum"
  /\ pc[1] = "returned" /\ pc[2] = "returned"
  /\ CacheHit(cache, KeyOf(procs[1].wallet, None))
  /\ cache[KeyOf(procs[1].wallet, None)] = Zero
  /\ calls["chain"] = 2
  /\ calls[FailedOf("chain")] = 0

\* A decimal without the zeros at its end.
RECURSIVE Stripped(_)
Stripped(d) ==
  IF \A i \in 1..Len(d.digits) : d.digits[i] = 0 THEN Dec(<<0>>, 0)
  ELSE IF d.digits[Len(d.digits)] = 0
    THEN Stripped(Dec(SubSeq(d.digits, 1, Len(d.digits) - 1), d.exp + 1))
    ELSE d

\* C22: the cache round trip of a balance is lossless.  The balance a read
\* serves from the cache is the decimal the read that wrote the entry
\* returned, for every on-chain integer amount.
C22_RoundTripLossless ==
  (request.kind = "roundtrip" /\ response.status = "cached")
    => Stripped(response.served) = Stripped(response.balance)

\* C22 witness: 1.234567890123456789 ETH was read, cached and read again, and
\* the cache served another decimal.
C22_Witness ==
  /\ request.kind = "roundtrip" /\ response.status = "cached"
  /\ request.network = "ethereum" /\ request.asset = None
  /\ response.balance = Dec(<<1, 2, 3, 4, 5, 6, 7, 8, 9, 0, 1, 2, 3, 4, 5, 6, 7, 8, 9>>, -18)
  /\ Stripped(response.served) # Stripped(response.balance)

SameOutside(old, new, keys) ==
  /\ DOMAIN old \ keys = DOMAIN new \ keys
  /\ \A k \in DOMAIN old \ keys : new[k] = old[k]

\* C24: cache keys and isolation.  A balance reader writes only under the key
\* of its own network, asset and address, and a balance it returns without
\* asking its endpoint is the one stored under that key; get_all_prices
\* touches crypto:prices and crypto:ngn_rate only, get_ngn_rate
\* crypto:ngn_rate only, whatever balances the store holds.
C24_KeyIsolation ==
  [][/\ \A p \in P :
          (procs[p].op = "read" /\ pc[p] = "start" /\ pc'[p] # "start") =>
            LET key == KeyOf(procs[p].wallet, procs[p].asset)
            IN  /\ SameOutside(cache, cache', {key})
                /\ (pc'[p] = "returned" /\ \A k \in NetworkCalls : calls'[k] = calls[k])
                     => /\ CacheHit(cache, key)
                        /\ loc'[p].balance = DecimalOfCached(cache[key])
     /\ \A tresp \in TickerResponses, qresp \in QuidaxResponses :
          /\ SameOutside(cache, AllPrices(cache, tresp, qresp).store,
                         {CACHE_KEY_PRICES, CACHE_KEY_NGN_RATE})
          /\ SameOutside(cache, NgnRate(cache, qresp).store, {CACHE_KEY_NGN_RATE})]_vars

\* C24 witness: the native balance and the USDT balance of one ethereum address
\* were read, the two entries are both there and differ, and the bsc entry of
\* the same address is not.
C24_Witness ==
  /\ request.kind = "reads"
  /\ pc[1] = "returned" /\ pc[2] = "returned"
  /\ procs[1].wallet = procs[2].wallet
  /\ procs[1].wallet.network = "ethereum"
  /\ procs[1].asset = None /\ procs[2].asset = "USDT"
  /\ CacheHit(cache, KeyOf(procs[1].wallet, None))
  /\ CacheHit(cache, KeyOf(procs[2].wallet, "USDT"))
  /\ cache[KeyOf(procs[1].wallet, None)] # cache[KeyOf(procs[2].wallet, "USDT")]
  /\ KeyOf(Wallet("w6", "bsc", "0xa1"), None) \notin DOMAIN cache

\* The native asset of each network, and the asset a request resolves to: the
\* explicit asset in upper case, or the native asset of the wallet's network.
NativeOf ==
  [ethereum |-> "ETH", bsc |-> "BNB", polygon |-> "MATIC", bitcoin |-> "BTC"]

Resolved(wallet, asset) ==
  IF asset \in {None, ""} THEN NativeOf[wallet.network] ELSE Upper(asset)

\* What the reader that the resolved target calls for can do: the bitcoin
\* reader or the EVM native reader of the wallet's network for a native target,
\* the token reader of the wallet's network for a token.
Dispatched(wallet, target) ==
  {IF target \in {"ETH", "BNB", "MATIC", "BTC"}
     THEN (IF wallet.network = "bitcoin"
             THEN BtcBalance(cache, wallet, resp)
             ELSE EvmBalance(cache, wallet, resp))
     ELSE TokenBalance(cache, wallet, target, resp) :
   resp \in ReadResponses(wallet, target)}

\* C25: asset resolution and dispatch of get_wallet_balance.  A call that gets
\* past validation and read has the resolved target for its symbol and a
\* balance, store and calls that the resolved target's reader produces; the
\* quote it returns names the resolved target.
C25_ResolutionAndDispatch ==
  [][\A p \in P :
       procs[p].op = "balance" =>
         LET wallet == procs[p].wallet
             target == Resolved(wallet, procs[p].asset)
         IN  /\ (pc[p] = "start" /\ pc'[p] = "price") =>
                  /\ loc'[p].symbol = target
                  /\ \E r \in Dispatched(wallet, target) :
                       /\ r.exc = NoException
                       /\ loc'[p].balance = r.value
                       /\ cache' = r.store
                       /\ request.kind = "balance" => calls' = Plus(calls, r.calls)
             /\ pc'[p] = "returned" =>
                  /\ loc'[p].quote.asset = target
                  /\ loc'[p].quote.network = wallet.network
                  /\ loc'[p].quote.address = wallet.address]_vars

\* C25 witness: asked for "usdt" of an ethereum wallet, get_wallet_balance has
\* called the chain endpoint once and returned a quote of USDT.
C25_Witness ==
  /\ request.kind = "balance"
  /\ \E p \in P :
       /\ procs[p].asset = "usdt"
       /\ procs[p].wallet.network = "ethereum"
       /\ pc[p] = "returned"
       /\ loc[p].quote.asset = "USDT"
       /\ IsPositive(loc[p].quote.balance)
  /\ calls["chain"] = 1
  /\ calls["explorer"] = 0

\* An amount of the explorer's answer, an absent one counted as 0.
AmountOf(body, object, field) ==
  IF object \in DOMAIN body /\ field \in DOMAIN body[object] THEN body[object][field] ELSE 0

\* C26: the value of a fresh bitcoin read, times 10^8, is the confirmed and
\* unconfirmed funded satoshi less the confirmed and unconfirmed spent satoshi,
\* an absent amount counted as 0.
C26_BitcoinBalance ==
  \A p \in P :
    (request.kind = "bitcoin" /\ pc[p] = "returned") =>
      LET body == request.resp.body
          funded == AmountOf(body, "chain_stats", "funded_txo_sum")
                      + AmountOf(body, "mempool_stats", "funded_txo_sum")
          spent == AmountOf(body, "chain_stats", "spent_txo_sum")
                     + AmountOf(body, "mempool_stats", "spent_txo_sum")
          balance == loc[p].balance
      IN  /\ balance.e \in -8..0
          /\ balance.c * Pow10(balance.e + 8) = funded - spent

C26_Witness ==
  /\ request.kind = "bitcoin"
  /\ pc = <<"returned">>
  /\ request.resp.body = [chain_stats |-> [funded_txo_sum |-> 223400000, spent_txo_sum |-> 100000000],
                          mempool_stats |-> [funded_txo_sum |-> 1500]]
  /\ loc[1].balance = [c |-> 1234015, e |-> -6]
  /\ calls["explorer"] = 1

\* The five prices a table takes from the tickers.
TickerBacked == PriceFields \ {"usdt"}

\* A table built when the ticker fetch failed, and one built from the tickers.
Zeroed(table) == \A f \in TickerBacked : table[f].price_usd = 0

FromTickers(table) ==
  \E body \in TickerBodies :
    \A f \in TickerBacked :
      table[f].price_usd = (IF PairOf(f) \in DOMAIN body THEN body[PairOf(f)].price ELSE 0)

\* C27: a get_all_prices call that finds no crypto:prices entry (it expired, or
\* was never written) asks the ticker source once more, returns the table built
\* from that answer and leaves it as the entry.
C27_ExpiryForcesRecomputation ==
  [][\A p \in P :
       (/\ procs[p].op = "prices"
        /\ pc[p] = "prices" /\ pc'[p] # "prices"
        /\ ~CacheFails
        /\ CACHE_KEY_PRICES \notin DOMAIN cache)
         => /\ calls'["ticker"] = calls["ticker"] + 1
            /\ pc'[p] = "returned" =>
                 /\ IF calls'["ticker failed"] > calls["ticker failed"]
                      THEN Zeroed(loc'[p].prices)
                      ELSE FromTickers(loc'[p].prices)
                 /\ client => /\ CACHE_KEY_PRICES \in DOMAIN cache'
                              /\ cache'[CACHE_KEY_PRICES] = loc'[p].prices]_vars

\* Two callers, the entry of the first expired before the second called: the
\* rate was asked once and served from its entry, the tickers were asked twice.
C27_Witness ==
  /\ request.kind = "prices"
  /\ client
  /\ \A p \in P : pc[p] = "returned"
  /\ calls["ticker"] = 2 /\ calls["ticker failed"] = 1
  /\ calls["fiat"] = 1 /\ calls["fiat failed"] = 0
  /\ \E p, q \in P : FromTickers(loc[p].prices) /\ Zeroed(loc[q].prices)
                        /\ cache[CACHE_KEY_PRICES] = loc[q].prices

\* The entry of a table built without the tickers: the five ticker-backed
\* prices 0, USDT 1.0.
ZeroedEntry(store) ==
  /\ CacheHit(store, CACHE_KEY_PRICES)
  /\ Zeroed(store[CACHE_KEY_PRICES])
  /\ store[CACHE_KEY_PRICES]["usdt"].price_usd = USDT_PRICE

C29_EntryIsOneWholeTable ==
  CACHE_KEY_PRICES \in DOMAIN cache =>
    LET entry == cache[CACHE_KEY_PRICES]
    IN  /\ DOMAIN entry = PriceFields
        /\ \A f \in PriceFields : entry[f].symbol = Upper(f)
        /\ entry["usdt"].price_usd = USDT_PRICE
        /\ \E rate \in Rates :
             \A f \in PriceFields : entry[f].price_ngn = entry[f].price_usd * rate

\* Two callers have each built and written a table, at different rates; the
\* entry is the one written last.
C29_Witness ==
  /\ request.kind = "prices"
  /\ client
  /\ calls["ticker"] = 2
  /\ \A p \in P : pc[p] = "returned"
  /\ \E p, q \in P :
       /\ loc[p].prices["usdt"].price_ngn # loc[q].prices["usdt"].price_ngn
       /\ CACHE_KEY_PRICES \in DOMAIN cache
       /\ cache[CACHE_KEY_PRICES] = loc[q].prices

\* The calls to the chain endpoints and the explorer, and those that failed.
Upstream(made) == made["chain"] + made["explorer"]

UpstreamFailed(made) == made["chain failed"] + made["explorer failed"]

\* C30: a balance read that raises leaves every entry as it was; a read changes
\* the store only by returning, after one upstream call that did not fail, and
\* then only its own key, to the value it returns.
C30_FailedReadLeavesCache ==
  [][\A p \in P :
       (procs[p].op = "read" /\ pc[p] = "start" /\ pc'[p] # "start") =>
         /\ pc'[p] = "raised" => cache' = cache
         /\ cache' # cache =>
              /\ pc'[p] = "returned"
              /\ Upstream(calls') = Upstream(calls) + 1
              /\ UpstreamFailed(calls') = UpstreamFailed(calls)
              /\ \E key \in DOMAIN cache' :
                   /\ SameOutside(cache, cache', {key})
                   /\ cache'[key] = FloatOfDecimal(loc'[p].balance)]_vars

\* An ethereum wallet read twice with the store connected, each read asking the
\* endpoint: one returned 0 and wrote the entry, the other failed, and the
\* entry holds what the one that returned wrote.
C30_Witness ==
  /\ request.kind = "reads"
  /\ request.wallets[1] = request.wallets[2]
  /\ request.asset = <<None, None>>
  /\ \E p, q \in P : pc[p] = "returned" /\ pc[q] = "raised"
                        /\ loc[q].exc.type = "ExternalAPIError"
  /\ calls["chain"] = 2 /\ calls["chain failed"] = 1
  /\ client
  /\ DOMAIN cache = {<<"balance", "ethereum", request.wallets[1].address>>}
  /\ \A key \in DOMAIN cache : cache[key] = Zero

\* A quote names a wallet: it carries the wallet's id, network and address.
Names(quote, wallet) ==
  /\ quote.id = wallet.id
  /\ quote.network = wallet.network
  /\ quote.address = wallet.address

\* C31: no step changes a wallet the request or a task was given; a quote
\* get_wallet_balance returns names the wallet it was called with, and every
\* quote of a returned portfolio names one of the request's wallets.
C31_WalletsOnlyRead ==
  [][/\ request' = request
     /\ procs' = procs
     /\ \A p \in P :
          (procs[p].op = "balance" /\ pc'[p] = "returned") =>
            Names(loc'[p].quote, procs[p].wallet)
     /\ (request.kind = "portfolio" /\ response'.status = "returned") =>
          \A i \in 1..Len(response'.wallets) :
            \E w \in 1..Len(request.wallets) :
              Names(response'.wallets[i], request.wallets[w])]_vars

\* A returned portfolio of two wallets with a quote for each.
C31_Witness ==
  /\ request.kind = "portfolio"
  /\ Len(request.wallets) = 2
  /\ response.status = "returned"
  /\ \A w \in 1..2 :
       \E i \in 1..Len(response.wallets) : Names(response.wallets[i], request.wallets[w])

\* C32: the portfolio request comes to its response, and whenever the response
\* is there every balance task has returned or raised and every wallet's
\* results are in.
C32_PortfolioTerminates ==
  /\ <>(response.status = "returned")
  /\ [](response.status = "returned" =>
          /\ \A p \in P : pc[p] \in {"returned", "raised"}
          /\ \A w \in 1..Len(wres) : wres[w].done)

\* A returned portfolio of a wallet of three tasks, one of which raised, the
\* quotes of the other two in the response.
C32_Witness ==
  /\ request.kind = "portfolio"
  /\ response.status = "returned"
  /\ Len(procs) = 3
  /\ \E p \in P : pc[p] = "raised"
  /\ Len(response.wallets) = 2

\* C33: a token read whose response has no result member, a null result or
\* the result "0x" returns 0 and leaves 0 as its entry; a native read whose
\* response has no result member, a null result or an empty result raises
\* ExternalAPIError, returns no balance and writes nothing.
C33_EmptyResultAsymmetry ==
  \A p \in P :
    (procs[p].op = "result" /\ pc[p] # "start") =>
      LET wallet == procs[p].wallet
          asset == procs[p].asset
          kind == request.resp.kind
      IN  /\ (asset # None /\ kind \in {"empty", "null", "empty_hex"}) =>
               /\ pc[p] = "returned"
               /\ loc[p].balance = Zero
               /\ client => /\ KeyOf(wallet, asset) \in DOMAIN cache
                            /\ cache[KeyOf(wallet, asset)] = Zero
          /\ (asset = None /\ kind \in {"empty", "null", "empty_string"}) =>
               /\ pc[p] = "raised"
               /\ loc[p].exc.type = "ExternalAPIError"
               /\ loc[p].balance = Zero
               /\ cache = EmptyDict

\* A token read of a "0x" result has returned 0 and cached it.
C33_Witness ==
  /\ request.kind = "result"
  /\ request.asset = "USDT"
  /\ request.resp.kind = "empty_hex"
  /\ client
  /\ pc = <<"returned">>
  /\ loc[1].balance = Zero
  /\ calls["chain"] = 1
  /\ cache # EmptyDict

\* The position of the refresh task.
LoopAt(positions) == \E p \in P : procs[p].op = "loop" /\ pc[p] \in positions

\* C34: a refresh, failed or not, is followed by the sleep, the sleep by
\* another refresh, and the task leaves this cycle only by being cancelled.
C34_LoopSurvivesFailures ==
  /\ [][\A p \in P :
          /\ (pc[p] = "prices" /\ pc'[p] # "prices") => pc'[p] \in {"sleep", "cancelled"}
          /\ (pc[p] = "sleep" /\ pc'[p] # "sleep") => pc'[p] \in {"prices", "cancelled"}]_vars
  /\ LoopAt({"prices"}) ~> LoopAt({"sleep", "cancelled"})
  /\ LoopAt({"sleep"}) ~> LoopAt({"prices", "cancelled"})

\* A refresh has failed with an error of the parsing, and the task is at its
\* next refresh.
C34_Witness ==
  /\ request.kind = "refresh"
  /\ LoopAt({"prices"})
  /\ \E p \in P : loc[p].exc.type = "KeyError"

\* The id names a wallet of the store: it is well formed and, read in either
\* case, the id of a document.
Present(wallet_id) ==
  /\ wallet_id \in WellFormed
  /\ \E d \in documents : d.id = ObjectId(wallet_id)

NotFound(p) ==
  /\ pc'[p] = "raised"
  /\ loc'[p].exc = WalletNotFoundError(procs[p].wallet_id)

\* A delete_wallet of this id has returned.
Deleted(oid) ==
  \E q \in P : /\ procs[q].op = "delete" /\ pc[q] = "returned"
               /\ ObjectId(procs[q].wallet_id) = oid

\* C35: get_wallet and delete_wallet raise WalletNotFoundError for an id that
\* is malformed or names no wallet, and then the store is as it was; a
\* delete_wallet that returns has removed the wallet of its id and no other;
\* once it has returned, get_wallet of that id raises WalletNotFoundError and
\* get_all_wallets lists no wallet of that id.
C35_WalletLifecycle ==
  [][\A p \in P :
       LET oid == ObjectId(procs[p].wallet_id)
       IN  /\ (procs[p].op \in {"get", "delete"} /\ pc[p] = "start" /\ pc'[p] # "start") =>
                /\ ~Present(procs[p].wallet_id) => NotFound(p)
                /\ Deleted(oid) => NotFound(p)
                /\ documents' = documents
           /\ (procs[p].op = "delete" /\ pc[p] # "returned" /\ pc'[p] = "returned") =>
                /\ \A d \in documents' : d.id # oid
                /\ \A d \in documents : d.id # oid => d \in documents'
                /\ documents' \subseteq documents
           /\ (procs[p].op = "list" /\ pc'[p] = "returned") =>
                \A d \in loc'[p].found : ~Deleted(d.id)]_vars

\* delete_wallet("AA1") has returned, get_wallet("aa1") after it has raised
\* WalletNotFoundError, and the other two wallets are in the store.
C35_Witness ==
  /\ request.kind = "wallets"
  /\ request.ops = <<WalletOp("delete", "AA1"), WalletOp("get", "aa1")>>
  /\ pc = <<"returned", "raised">>
  /\ loc[2].exc = WalletNotFoundError("aa1")
  /\ documents = {d \in StoredWallets : d.id # "aa1"}


\* The fields of the response schemas (schemas/wallet.py): WalletResponse,
\* WalletBalanceResponse and PortfolioValueResponse.
WalletResponseFields == {"id", "network", "address", "created_at"}

WalletBalanceFields ==
  {"id", "network", "address", "asset", "balance", "balance_usd", "balance_ngn"}

PortfolioValueFields == {"total_value_usd", "total_value_ngn", "wallets"}

\* The wallet with another private key and nothing else changed.
Rekeyed(wallet) == [wallet EXCEPT !.encrypted_private_key = "another key"]

\* The quote is what get_wallet_balance builds for the wallet from the quote's
\* own asset and balance, at some price and rate.
QuoteOf(quote, wallet) ==
  \E price_usd \in Prices, rate \in Rates :
    quote = Quote(wallet, quote.asset, quote.balance, price_usd, rate)

\* C36: no private key leaves through a response.  The WalletResponse of GET
\* /wallets/{id} has the fields id, network, address and created_at and nothing
\* else; a quote of get_wallet_balance, returned alone or listed in a returned
\* portfolio, has id, network, address, asset, balance, balance_usd and
\* balance_ngn and nothing else; the portfolio has its two totals and the list of
\* quotes; and each of them is what the same code builds for the wallet that
\* differs only in its encrypted private key.
C36_NoKeyInResponses ==
  /\ \A p \in P :
       (procs[p].op = "wallet" /\ pc[p] = "returned") =>
         /\ DOMAIN loc[p].response = WalletResponseFields
         /\ loc[p].response = ToResponse(Rekeyed(procs[p].wallet))
  /\ \A p \in P :
       (procs[p].op = "balance" /\ pc[p] = "returned") =>
         /\ DOMAIN loc[p].quote = WalletBalanceFields
         /\ QuoteOf(loc[p].quote, procs[p].wallet)
         /\ QuoteOf(loc[p].quote, Rekeyed(procs[p].wallet))
  /\ (request.kind = "portfolio" /\ response.status = "returned") =>
       /\ DOMAIN response \ {"status"} = PortfolioValueFields
       /\ \A i \in 1..Len(response.wallets) :
            /\ DOMAIN response.wallets[i] = WalletBalanceFields
            /\ \E w \in 1..Len(request.wallets) :
                 /\ QuoteOf(response.wallets[i], request.wallets[w])
                 /\ QuoteOf(response.wallets[i], Rekeyed(request.wallets[w]))

\* The details of wallet w1, which holds the key "key of w1", have been
\* returned: id, network, address and the time of creation.
C36_Witness ==
  /\ request.kind = "wallet"
  /\ procs[1].wallet.encrypted_private_key = "key of w1"
  /\ pc[1] = "returned"
  /\ loc[1].response = [id |-> "w1", network |-> "ethereum", address |-> "0xa1",
                        created_at |-> "t0"]

====
